---- MODULE Spec2Model ----
(***************************************************************************)
(* Injection--recovery experiments with quasi-periodic noise               *)
(* (src/spotlightcurve/sim/inject.py) as a state machine.                  *)
(*                                                                         *)
(* Numbers.  Every float of the program is an integer count of a unit:    *)
(*   - times, epochs, durations and periods count ticks, the spacing of    *)
(*     the smallest floats; a float holds Precision significant bits, and  *)
(*     the sums and differences of the phase are rounded to nearest, ties  *)
(*     to even, as binary64 rounds them at 53 bits; periods are even so    *)
(*     that 0.5 * period is a float;                                       *)
(*   - flux, depth, noise, amplitude and jitter count flux steps, One      *)
(*     steps to 1.0, and the code's 1e-6 is one step (Tiny); the           *)
(*     arithmetic of fluxes is exact (its rounding is not represented);    *)
(*   - variances count squared steps, so the code's 1e-12 is Tiny * Tiny   *)
(*     and a standard deviation s used as a variance is s * One;           *)
(*   - quotients (weighted means, depth, variance) are reduced fractions   *)
(*     [n, d]; a flux error is carried by its square, and the snr by its   *)
(*     sign and its square, so no root is ever taken of a non-square.      *)
(***************************************************************************)
EXTENDS Integers, Sequences, FiniteSets, TLC

\* ------------------------------------------------------------ bounds
MaxTick == 3        \* time samples lie on ticks 0..MaxTick
MaxInj == 2         \* longest list of injections
NumSeeds == 2       \* seeds a generator can be created with
Precision == 4      \* significant bits of a float
MaxDepth == 6       \* deepest transit an snr is compared at
QualityBits == 3    \* bits of a QUALITY value

\* ------------------------------------------------- program constants
One == 100          \* np.ones_like: flux steps in 1.0
Tiny == 1           \* 1e-6, the floor of timescale, period, gamma, jitter
DefaultThreshold == 7
FoldOne == 64       \* phase_fold: phase steps in 1.0
DEFAULT_BITMASK == 3        \* the flag values of the test's lightkurve stub
CONSERVATIVE_BITMASK == 7
LENIENT_BITMASK == 1

\* ------------------------------------------------------- arithmetic
Abs(x) == IF x < 0 THEN -x ELSE x

Max(a, b) == IF a >= b THEN a ELSE b

Sign(x) == IF x > 0 THEN 1 ELSE IF x < 0 THEN -1 ELSE 0

RECURSIVE Gcd(_, _)
Gcd(a, b) == IF b = 0 THEN a ELSE Gcd(b, a % b)

Lcm(a, b) == (a \div Gcd(a, b)) * b

\* The fraction n / d (d # 0) in lowest terms with a positive denominator.
FracBy(n, d, g) ==
    IF d < 0 THEN [n |-> -(n \div g), d |-> -(d \div g)]
    ELSE [n |-> n \div g, d |-> d \div g]

Frac(n, d) == FracBy(n, d, Gcd(Abs(n), Abs(d)))

RECURSIVE SumSeq(_)
SumSeq(s) == IF s = <<>> THEN 0 ELSE Head(s) + SumSeq(Tail(s))

RECURSIVE Isqrt(_)
\* floor of the square root
Isqrt(v) ==
    IF v < 2 THEN v
    ELSE LET r == 2 * Isqrt(v \div 4)
         IN  IF (r + 1) * (r + 1) <= v THEN r + 1 ELSE r

RECURSIVE Pow2(_)
Pow2(e) == IF e = 0 THEN 1 ELSE 2 * Pow2(e - 1)

RECURSIVE Quantum(_, _)
\* the spacing of the floats around magnitude a: the least q = 2^k, q >= from,
\* with a < 2^Precision * q
Quantum(a, from) ==
    IF a < Pow2(Precision) * from THEN from ELSE Quantum(a, 2 * from)

\* magnitude a rounded to a multiple of q: to nearest, ties to the even multiple
RoundMag(a, q) ==
    IF 2 * (a % q) < q THEN a - (a % q)
    ELSE IF 2 * (a % q) > q THEN a - (a % q) + q
    ELSE IF (a \div q) % 2 = 0 THEN a - (a % q)
    ELSE a - (a % q) + q

\* the float nearest to the real v: the result of one float operation
Fl(v) == Sign(v) * RoundMag(Abs(v), Quantum(Abs(v), 1))

\* C's fmod(a, b), b # 0: exact, with the sign of a
Fmod(a, b) == IF a >= 0 THEN a % Abs(b) ELSE -((-a) % Abs(b))

\* Python's and numpy's  a % b  on finite floats, b # 0:
\*   mod = fmod(a, b); if mod and ((b < 0) != (mod < 0)): mod += b
AdjustMod(mod, b) ==
    IF mod # 0 /\ ((b < 0) # (mod < 0)) THEN Fl(mod + b) ELSE mod

PyMod(a, b) == AdjustMod(Fmod(a, b), b)

\* --------------------------------------------------------- raising
Raised(kind, msg) == [ok |-> FALSE, kind |-> kind, msg |-> msg]

NoError == [ok |-> TRUE, kind |-> "", msg |-> ""]

\* ------------------------------------------------ _validate_time_array
\* A time argument is [ndim, data, finite]: the array's number of
\* dimensions, its values in order, and np.isfinite of each value.

\* variant: only the shape of time is checked
validate_time_array_shape_only(time) ==
    IF time.ndim # 1 \/ Len(time.data) = 0
    THEN Raised("ValueError",
                "time must be a one-dimensional array with at least one sample")
    ELSE NoError

\* if time.ndim != 1 or time.size == 0: raise; if not np.all(np.isfinite(time)): raise
validate_time_array(time) ==
    IF time.ndim # 1 \/ Len(time.data) = 0
    THEN Raised("ValueError",
                "time must be a one-dimensional array with at least one sample")
    ELSE IF \E i \in 1..Len(time.finite) : ~time.finite[i]
    THEN Raised("ValueError", "time contains non-finite values")
    ELSE NoError

\* ------------------------------------------------- the transit window
\* phase = ((t - t0 + 0.5 * period) % period) - 0.5 * period, period # 0
PhaseOf(shifted, inj) ==
    Fl(PyMod(shifted, inj.period) - (inj.period \div 2))

Phase(t, inj) == PhaseOf(Fl(Fl(t - inj.t0) + (inj.period \div 2)), inj)

\* variant: the edge of the window is left out
InTransitStrict(t, inj) ==
    /\ inj.period # 0
    /\ 2 * Abs(Phase(t, inj)) < inj.duration

\* in_transit = np.abs(phase) <= 0.5 * duration.  A zero period makes the
\* phase NaN (x % 0.0), and no comparison with NaN is true.
InTransit(t, inj) ==
    /\ inj.period # 0
    /\ 2 * Abs(Phase(t, inj)) <= inj.duration

\* variant: the mask leaves out the samples on the edge of the window
InTransitMaskStrict(time, inj) ==
    [i \in 1..Len(time.data) |-> InTransitStrict(time.data[i], inj)]

\* the in_transit array of recover_box_depth
InTransitMask(time, inj) ==
    [i \in 1..Len(time.data) |-> InTransit(time.data[i], inj)]

\* ------------------------------------------------- inject_box_transit
NoFlux == <<>>

InjectFailure(e) == [ok |-> FALSE, kind |-> e.kind, msg |-> e.msg, flux |-> NoFlux]

\* variant: a zero depth is let through
DepthRejectedNegativeOnly(depth) == depth < 0

\* if depth <= 0: raise ValueError("Transit depth must be positive")
DepthRejected(depth) == depth <= 0

\* flux = np.ones_like(time); flux[in_transit] -= depth
BoxFlux(time, injection) ==
    [i \in 1..Len(time.data) |->
        IF InTransit(time.data[i], injection) THEN One - injection.depth ELSE One]

\* the body of inject_box_transit, valid being _validate_time_array's outcome
InjectValidated(valid, time, injection) ==
    IF ~valid.ok THEN InjectFailure(valid)
    ELSE IF DepthRejected(injection.depth)
    THEN InjectFailure(Raised("ValueError", "Transit depth must be positive"))
    ELSE IF injection.duration <= 0 \/ injection.period <= 0
    THEN InjectFailure(Raised("ValueError",
                              "Transit duration and period must be positive"))
    ELSE [ok |-> TRUE, kind |-> "", msg |-> "", flux |-> BoxFlux(time, injection)]

inject_box_transit(time, injection) ==
    InjectValidated(validate_time_array(time), time, injection)

\* ------------------------------------------------------- flux errors
\* A flux_err argument is [none, elems]: none when the caller passed None;
\* an element is [valid, n, d], valid = np.isfinite(err) & (err > 0) and
\* n / d = err ** 2 when valid.
NoneErr == [none |-> TRUE, elems |-> <<>>]

ErrElem(e) == [valid |-> e > 0, n |-> IF e > 0 THEN e * e ELSE 0, d |-> 1]

NonFiniteErr == [valid |-> FALSE, n |-> 0, d |-> 1]

ErrArray(elems) == [none |-> FALSE, elems |-> elems]

SumSquares(flux) == SumSeq([i \in 1..Len(flux) |-> flux[i] * flux[i]])

\* the square of np.nanstd(flux), the population standard deviation:
\* (N * sum(f^2) - sum(f)^2) / N^2
NanVar(N, s1, s2) == Frac(N * s2 - s1 * s1, N * N)

UniformErr(v, N) ==
    ErrArray([i \in 1..N |-> [valid |-> v.n > 0, n |-> v.n, d |-> v.d]])

\* np.full_like(flux, np.nanstd(flux))
FullLikeNanStd(flux) ==
    UniformErr(NanVar(Len(flux), SumSeq(flux), SumSquares(flux)), Len(flux))

\* weights = np.where(np.isfinite(flux_err) & (flux_err > 0), 1/flux_err**2, 0)
\* as [w, k]: integers w[i] and one positive fraction k with
\* weights[i] = w[i] / k.
RECURSIVE LcmValid(_)
LcmValid(elems) ==
    IF elems = <<>> THEN 1
    ELSE IF Head(elems).valid THEN Lcm(Head(elems).n, LcmValid(Tail(elems)))
    ELSE LcmValid(Tail(elems))

RECURSIVE GcdSeq(_)
GcdSeq(s) == IF s = <<>> THEN 0 ELSE Gcd(Head(s), GcdSeq(Tail(s)))

ScaledWeights(elems, L) ==
    [i \in 1..Len(elems) |->
        IF elems[i].valid THEN elems[i].d * (L \div elems[i].n) ELSE 0]

ReducedWeights(raw, L, g) ==
    IF g = 0 THEN [w |-> raw, k |-> Frac(1, 1)]
    ELSE [w |-> [i \in 1..Len(raw) |-> raw[i] \div g], k |-> Frac(L, g)]

WeightsOver(raw, L) == ReducedWeights(raw, L, GcdSeq(raw))

WeightsWith(elems, L) == WeightsOver(ScaledWeights(elems, L), L)

Weights(elems) == WeightsWith(elems, LcmValid(elems))

\* ------------------------------------------------- recover_box_depth
NoDepth == Frac(0, 1)

NoSnr == [sgn |-> 0, sq |-> Frac(0, 1)]

RecoverFailure(e) ==
    [ok |-> FALSE, kind |-> e.kind, msg |-> e.msg,
     recovered_depth |-> NoDepth, snr |-> NoSnr]

\* the sum of vals over the samples whose in_transit flag is `wanted`
GroupSum(vals, in_transit, wanted) ==
    SumSeq([i \in 1..Len(vals) |-> IF in_transit[i] = wanted THEN vals[i] ELSE 0])

Products(w, flux) == [i \in 1..Len(flux) |-> w[i] * flux[i]]

\* np.average(flux[group], weights=w[group]) = sum(w * f) / sum(w); it
\* raises ZeroDivisionError when the weights of the group sum to zero.
Average(flux, w, in_transit, wanted) ==
    Frac(GroupSum(Products(w, flux), in_transit, wanted),
         GroupSum(w, in_transit, wanted))

\* variant: the two means are subtracted the other way round
RecoveredDepthSwapped(mean_oot, mean_in) ==
    Frac(mean_in.n * mean_oot.d - mean_oot.n * mean_in.d, mean_oot.d * mean_in.d)

\* recovered_depth = mean_oot - mean_in
RecoveredDepth(mean_oot, mean_in) ==
    Frac(mean_oot.n * mean_in.d - mean_in.n * mean_oot.d, mean_oot.d * mean_in.d)

\* var_in + var_oot = 1/wt_in.sum() + 1/wt_oot.sum() = k/sum_in + k/sum_oot
SumOfVariances(k, sum_in, sum_oot) ==
    Frac(k.n * (sum_in + sum_oot), k.d * sum_in * sum_oot)

\* snr = recovered_depth / np.sqrt(var_in + var_oot), by its sign and square
Snr(rec, var) ==
    [sgn |-> Sign(rec.n),
     sq  |-> Frac(rec.n * rec.n * var.d, rec.d * rec.d * var.n)]

RecoverResult(rec, var) ==
    [ok |-> TRUE, kind |-> "", msg |-> "",
     recovered_depth |-> rec, snr |-> Snr(rec, var)]

RecoverMeans(flux, weights, in_transit, sum_in, sum_oot) ==
    IF sum_oot = 0 \/ sum_in = 0
    THEN RecoverFailure(Raised("ZeroDivisionError",
                               "Weights sum to zero, can't be normalized"))
    ELSE RecoverResult(
             RecoveredDepth(Average(flux, weights.w, in_transit, FALSE),
                            Average(flux, weights.w, in_transit, TRUE)),
             SumOfVariances(weights.k, sum_in, sum_oot))

\* variant: the out-of-transit group is not looked at
RecoverGroupsNoOotCheck(flux, weights, in_transit) ==
    IF \A i \in 1..Len(flux) : weights.w[i] = 0
    THEN RecoverFailure(Raised("ValueError",
             "flux_err must contain at least one finite, positive entry"))
    ELSE IF \A i \in 1..Len(flux) : ~in_transit[i]
    THEN RecoverFailure(Raised("ValueError",
             "No samples fall within the transit window for recovery"))
    ELSE RecoverMeans(flux, weights, in_transit,
                      GroupSum(weights.w, in_transit, TRUE),
                      GroupSum(weights.w, in_transit, FALSE))

\* if not np.any(weights) / np.any(in_transit) / np.any(oot): raise ValueError
RecoverGroups(flux, weights, in_transit) ==
    IF \A i \in 1..Len(flux) : weights.w[i] = 0
    THEN RecoverFailure(Raised("ValueError",
             "flux_err must contain at least one finite, positive entry"))
    ELSE IF \A i \in 1..Len(flux) : ~in_transit[i]
    THEN RecoverFailure(Raised("ValueError",
             "No samples fall within the transit window for recovery"))
    ELSE IF \A i \in 1..Len(flux) : in_transit[i]
    THEN RecoverFailure(Raised("ValueError",
             "No out-of-transit samples available for baseline estimation"))
    ELSE RecoverMeans(flux, weights, in_transit,
                      GroupSum(weights.w, in_transit, TRUE),
                      GroupSum(weights.w, in_transit, FALSE))

\* if flux_err is None: flux_err = np.full_like(flux, np.nanstd(flux))
ErrOrDefault(flux, flux_err) ==
    IF flux_err.none THEN FullLikeNanStd(flux) ELSE flux_err

\* the body of recover_box_depth, valid being _validate_time_array's outcome
RecoverValidated(valid, time, flux, flux_err, injection) ==
    IF ~valid.ok THEN RecoverFailure(valid)
    ELSE IF Len(flux) # Len(time.data)
    THEN RecoverFailure(Raised("ValueError", "flux must match the shape of time"))
    ELSE IF ~flux_err.none /\ Len(flux_err.elems) # Len(time.data)
    THEN RecoverFailure(Raised("ValueError", "flux_err must match the shape of time"))
    ELSE RecoverGroups(flux, Weights(ErrOrDefault(flux, flux_err).elems),
                       InTransitMask(time, injection))

recover_box_depth(time, flux, flux_err, injection) ==
    RecoverValidated(validate_time_array(time), time, flux, flux_err, injection)

\* snr >= detection_threshold, the threshold an integer
SnrGE(snr, threshold) ==
    IF threshold >= 0
    THEN snr.sgn >= 0 /\ snr.sq.n >= threshold * threshold * snr.sq.d
    ELSE snr.sgn >= 0 \/ snr.sq.n <= threshold * threshold * snr.sq.d

\* ------------------------------------------------- random generators
\* A np.random.Generator is [none, seed, pos]: the seed it was created
\* with and the number of variates drawn from it so far; NoGen is the
\* argument None.  Variate(seed, pos) is the variate at position pos of the
\* stream of that seed, a standard normal deviate on the grid {-1, 0, 1}.
NoGen == [none |-> TRUE, seed |-> 0, pos |-> 0]

Gen(seed, pos) == [none |-> FALSE, seed |-> seed, pos |-> pos]

Seeds == 0..(NumSeeds - 1)

Variate(seed, pos) == (((pos * pos + (seed + 1) * pos + seed) % 5) % 3) - 1

\* rng.standard_normal(n): the next n variates; the generator moves on by n.
StandardNormal(rng, n) ==
    [x   |-> [i \in 1..n |-> Variate(rng.seed, rng.pos + i - 1)],
     rng |-> [rng EXCEPT !.pos = @ + n]]

\* variant: the generator passed in is ignored
ResolveGeneratorFresh(random_state, fresh) == fresh

\* if random_state is None: random_state = np.random.default_rng();
\* fresh is the generator default_rng() creates from the system's entropy.
ResolveGenerator(random_state, fresh) ==
    IF random_state.none THEN fresh ELSE random_state

\* ------------------------------------------------------ draw_qp_noise
\* A QPNoiseConfig is [amplitude, timescale, period, gamma, jitter].
\* The covariance matrix is [amp2, timescale, period, gamma, diag]:
\*   cov[i][j] = amp2 * exp(-0.5 * (dt/timescale)^2)
\*                    * exp(-sin(pi*dt/period)^2 / (2*gamma^2))
\*               + (diag if i = j else 0),      dt = time[i] - time[j].

\* variant: the diagonal gets the floor whatever the jitter
QPCovarianceNoJitter(config) ==
    [amp2      |-> config.amplitude * config.amplitude,
     timescale |-> Max(config.timescale, Tiny),
     period    |-> Max(config.period, Tiny),
     gamma     |-> Max(config.gamma, Tiny),
     diag      |-> Tiny * Tiny]

\* variant: timescale, period and gamma are used as given
QPCovarianceUnfloored(config) ==
    [amp2      |-> config.amplitude * config.amplitude,
     timescale |-> config.timescale,
     period    |-> config.period,
     gamma     |-> config.gamma,
     diag      |-> IF config.jitter > 0 THEN config.jitter * config.jitter
                   ELSE Tiny * Tiny]

\* max(config.timescale, 1e-6), max(config.period, 1e-6), max(config.gamma, 1e-6);
\* jitter ** 2 on the diagonal if config.jitter > 0, else 1e-12
QPCovariance(config) ==
    [amp2      |-> config.amplitude * config.amplitude,
     timescale |-> Max(config.timescale, Tiny),
     period    |-> Max(config.period, Tiny),
     gamma     |-> Max(config.gamma, Tiny),
     diag      |-> IF config.jitter > 0 THEN config.jitter * config.jitter
                   ELSE Tiny * Tiny]

\* variant: the diagonal term is replaced by the square of the escalated jitter
RetryCovarianceSquared(cov, config) ==
    [cov EXCEPT !.diag = Max(config.jitter, Tiny) * Max(config.jitter, Tiny)]

\* jitter = max(config.jitter, 1e-6); cov = cov + np.eye(time.size) * jitter
RetryCovariance(cov, config) ==
    [cov EXCEPT !.diag = @ + Max(config.jitter, Tiny) * One]

\* random_state.multivariate_normal(np.zeros(n), cov): numpy draws the n
\* standard normal variates first, then factors cov (raising LinAlgError
\* when the factorisation does not converge) and maps the variates through
\* the factor.  Each sample keeps its marginal deviation sqrt(cov[i][i]),
\* rounded down to the grid; the mixing of the variates by the
\* off-diagonal terms is not represented.
Sample(drawn, sd, fails) ==
    [ok    |-> ~fails,
     noise |-> IF fails THEN <<>> ELSE [i \in 1..Len(drawn.x) |-> sd * drawn.x[i]],
     rng   |-> drawn.rng]

MultivariateNormal(rng, n, cov, fails) ==
    Sample(StandardNormal(rng, n), Isqrt(cov.amp2 + cov.diag), fails)

DrawFailure(e, rng, attempts) ==
    [ok |-> FALSE, kind |-> e.kind, msg |-> e.msg, noise |-> <<>>,
     rng |-> rng, attempts |-> attempts]

DrawSuccess(a, attempts) ==
    [ok |-> TRUE, kind |-> "", msg |-> "", noise |-> a.noise,
     rng |-> a.rng, attempts |-> attempts]

\* except np.linalg.LinAlgError: ... the second call, whose error is not caught
DrawRetried(a2) ==
    IF a2.ok THEN DrawSuccess(a2, 2)
    ELSE DrawFailure(Raised("LinAlgError", "SVD did not converge"), a2.rng, 2)

\* try: noise = random_state.multivariate_normal(np.zeros(time.size), cov)
DrawTried(a1, n, cov, config, linalg) ==
    IF a1.ok THEN DrawSuccess(a1, 1)
    ELSE DrawRetried(MultivariateNormal(a1.rng, n, RetryCovariance(cov, config),
                                        linalg.retry))

DrawWith(rng, n, cov, config, linalg) ==
    DrawTried(MultivariateNormal(rng, n, cov, linalg.first), n, cov, config, linalg)

\* the body of draw_qp_noise, valid being _validate_time_array's outcome
DrawValidated(valid, time, config, random_state, fresh, linalg) ==
    IF ~valid.ok THEN DrawFailure(valid, random_state, 0)
    ELSE DrawWith(ResolveGenerator(random_state, fresh), Len(time.data),
                  QPCovariance(config), config, linalg)

\* linalg = [first, retry]: whether the factorisation fails for the first
\* covariance and for the escalated one (fixed by time and config).
draw_qp_noise(time, config, random_state, fresh, linalg) ==
    DrawValidated(validate_time_array(time), time, config, random_state, fresh,
                  linalg)

\* ======================================= estimate_rotation_period
\* Times and periods of the estimator are in ticks of 0.1 day, flux in
\* steps.  A series is [data, finite]: its values and np.isfinite of each.
\* max_period is [none, value], none for the argument None.

\* min_period: float = 0.1
DefaultMinPeriod == 1

NoMaxPeriod == [none |-> TRUE, value |-> 0]

MaxPeriod(value) == [none |-> FALSE, value |-> value]

Series(data, finite) == [data |-> data, finite |-> finite]

\* variant: only the times are tested
FiniteMaskTimeOnly(tm, fl) == [i \in 1..Len(tm.data) |-> tm.finite[i]]

\* finite_mask = np.isfinite(time) & np.isfinite(flux)
FiniteMask(tm, fl) == [i \in 1..Len(tm.data) |-> tm.finite[i] /\ fl.finite[i]]

\* data[finite_mask]
Masked(data, mask) ==
    LET kept[k \in 0..Len(data)] ==
            IF k = 0 THEN <<>>
            ELSE IF mask[k] THEN Append(kept[k - 1], data[k]) ELSE kept[k - 1]
    IN  kept[Len(data)]

SeqMax(s) == CHOOSE v \in {s[i] : i \in 1..Len(s)} : \A i \in 1..Len(s) : s[i] <= v

SeqMin(s) == CHOOSE v \in {s[i] : i \in 1..Len(s)} : \A i \in 1..Len(s) : s[i] >= v

\* the k-th smallest value of s
Kth(s, k) ==
    CHOOSE v \in {s[i] : i \in 1..Len(s)} :
        /\ Cardinality({i \in 1..Len(s) : s[i] < v}) < k
        /\ Cardinality({i \in 1..Len(s) : s[i] <= v}) >= k

\* twice np.nanmedian(flux): the middle value counted twice, or the sum of
\* the two middle values
TwiceMedian(s) == Kth(s, (Len(s) + 1) \div 2) + Kth(s, (Len(s) + 2) \div 2)

\* flux - np.nanmedian(flux), doubled to stay on the grid
FluxCentered(flux) == [i \in 1..Len(flux) |-> 2 * flux[i] - TwiceMedian(flux)]

\* baseline = np.nanmax(time) - np.nanmin(time)
Baseline(tm) == SeqMax(tm) - SeqMin(tm)

\* max_period = baseline if baseline > 0 else min_period * 10, when None
EffectiveMaxPeriod(max_period, baseline, min_period) ==
    IF max_period.none
    THEN IF baseline > 0 THEN baseline ELSE min_period * 10
    ELSE max_period.value

\* variant: equal periods pass
PeriodRangeRejectedStrict(max_period, min_period) == max_period < min_period

\* if max_period <= min_period: raise ValueError
PeriodRangeRejected(max_period, min_period) == max_period <= min_period

\* The locals after the checks, or the error raised by them.
EstimateChecked(tm, fl, min_period, max_period) ==
    IF PeriodRangeRejected(max_period, min_period)
    THEN [pc |-> "raised",
          error |-> Raised("ValueError",
                           "max_period must be greater than min_period."),
          time |-> <<>>, flux_centered |-> <<>>, max_period |-> 0]
    ELSE [pc |-> "periodogram", error |-> NoError,
          time |-> tm, flux_centered |-> FluxCentered(fl),
          max_period |-> max_period]

EstimateMasked(tm, fl, mask, min_period, max_period) ==
    IF \A i \in 1..Len(mask) : ~mask[i]
    THEN [pc |-> "raised",
          error |-> Raised("ValueError",
                           "No finite samples provided for period estimation."),
          time |-> <<>>, flux_centered |-> <<>>, max_period |-> 0]
    ELSE EstimateChecked(
             Masked(tm.data, mask), Masked(fl.data, mask), min_period,
             EffectiveMaxPeriod(max_period, Baseline(Masked(tm.data, mask)),
                                min_period))

\* estimate_rotation_period up to the periodogram
EstimatePrepared(tm, fl, min_period, max_period) ==
    EstimateMasked(tm, fl, FiniteMask(tm, fl), min_period, max_period)

\* ============================================================ inputs
TimeArray(data) ==
    [ndim |-> 1, data |-> data, finite |-> [i \in 1..Len(data) |-> TRUE]]

RECURSIVE Ascending(_)
\* the elements of a set of integers in increasing order
Ascending(S) ==
    IF S = {} THEN <<>>
    ELSE LET m == CHOOSE x \in S : \A y \in S : x <= y
         IN  <<m>> \o Ascending(S \ {m})

Ticks == 0..MaxTick

\* every non-empty increasing grid on the ticks, and two that are not
\* increasing
ValidTimes ==
    {TimeArray(Ascending(S)) : S \in (SUBSET Ticks) \ {{}}}
        \cup {TimeArray(<<2, 0>>), TimeArray(<<1, 1, 3>>)}

InvalidTimes ==
    {TimeArray(<<>>),
     [ndim |-> 2, data |-> <<0, 1>>, finite |-> <<TRUE, TRUE>>],
     [ndim |-> 0, data |-> <<1>>, finite |-> <<TRUE>>],
     [ndim |-> 1, data |-> <<0, 1>>, finite |-> <<TRUE, FALSE>>]}

Injection(depth, duration, period, t0) ==
    [depth |-> depth, duration |-> duration, period |-> period, t0 |-> t0]

\* the flux_err arguments tried with a time array of n samples: None, a
\* uniform array, one with a larger and a useless entry, one of the wrong
\* shape, one with no finite positive entry
FluxErrs(n) ==
    {NoneErr,
     ErrArray([i \in 1..n |-> ErrElem(1)]),
     ErrArray([i \in 1..n |-> ErrElem(2)]),
     ErrArray([i \in 1..n |-> IF i = 1 THEN NonFiniteErr
                              ELSE IF i = 2 THEN ErrElem(2) ELSE ErrElem(1)]),
     ErrArray([i \in 1..(n + 1) |-> ErrElem(1)]),
     ErrArray([i \in 1..n |-> ErrElem(0)])}

Config(amplitude, timescale, period, gamma, jitter) ==
    [amplitude |-> amplitude, timescale |-> timescale, period |-> period,
     gamma |-> gamma, jitter |-> jitter]

RECURSIVE ListsUpTo(_, _)
\* the lists of at most n elements of S
ListsUpTo(S, n) ==
    IF n = 0 THEN {<<>>}
    ELSE LET shorter == ListsUpTo(S, n - 1)
         IN  shorter \cup {Append(l, x) : l \in shorter, x \in S}

\* ============================================================= state
VARIABLES
    time, flux_err, injections, qp_config, detection_threshold,
    random_state,   \* the arguments of the call
    linalg,         \* whether the factorisation fails: [first, retry]
    pc,             \* run_injection_recovery: "idle", "call", "loop",
                    \*   "returned", "raised"
    rng,            \* the generator the run draws from (the caller's own
                    \*   object when one was passed)
    idx,            \* loop iterations started
    results,        \* the local list results
    ret,            \* what the caller received: [returned, value]
    error,          \* the exception that left the call, or NoError
    prev,           \* the outcome of the caller's previous call
    inject_call,    \* a direct call of inject_box_transit: [called, out]
    recover_call,   \* a direct call of recover_box_depth on its flux
    draw_call,      \* a direct call of draw_qp_noise:
                    \*   [pc, rng, cov, attempts, noise, error]
    draw_prev,      \* the caller's previous direct call of draw_qp_noise
    estimate_call,  \* a call of estimate_rotation_period: its arguments,
                    \*   position, locals and outcome
    fold_call,      \* a call of phase_fold: [called, args, out]
    mask_call       \* a call of apply_quality_masks: [called, args, out]

args == <<time, flux_err, injections, qp_config, detection_threshold,
          random_state, linalg>>

run == <<pc, rng, idx, results, ret, error>>

direct == <<inject_call, recover_call, draw_call, draw_prev, estimate_call,
           fold_call, mask_call>>

vars == <<args, run, prev, direct>>

NoReturn == [returned |-> FALSE, value |-> <<>>]

NoPrev == [pc |-> "none", ret |-> NoReturn, error |-> NoError, rng |-> NoGen]

NotCalledInject == [called |-> FALSE, out |-> InjectFailure(NoError)]

NotCalledRecover == [called |-> FALSE, out |-> RecoverFailure(NoError)]

NoCov == [amp2 |-> 0, timescale |-> 0, period |-> 0, gamma |-> 0, diag |-> 0]

NoDraw ==
    [pc |-> "idle", rng |-> NoGen, cov |-> NoCov, attempts |-> 0,
     noise |-> <<>>, error |-> NoError]

\* no call made of a function called directly: phase_fold, apply_quality_masks
NotCalled == [called |-> FALSE, args |-> <<>>, out |-> <<>>]

\* no call of estimate_rotation_period
NoEstimate ==
    [pc |-> "idle", time |-> Series(<<>>, <<>>), flux |-> Series(<<>>, <<>>),
     min_period |-> DefaultMinPeriod, max_period |-> NoMaxPeriod,
     kept_time |-> <<>>, flux_centered |-> <<>>, search_max |-> 0,
     periodograms |-> 0, period |-> 0, error |-> NoError]

\* estimate_rotation_period(time, flux, min_period=..., max_period=...)
NewEstimate(tm, fl, min_period, max_period) ==
    [NoEstimate EXCEPT !.pc = "call", !.time = tm, !.flux = fl,
                       !.min_period = min_period, !.max_period = max_period]

\* draw_qp_noise is called with generator random_state (or None)
NewDraw(generator) == [NoDraw EXCEPT !.pc = "call", !.rng = generator]

\* ============================================ run_injection_recovery
TrialFailure(e, gen) ==
    [ok |-> FALSE, kind |-> e.kind, msg |-> e.msg, rng |-> gen,
     result |-> <<>>]

\* variant: the comparison is strict
DetectedStrict(snr, threshold) == ~SnrGE([snr EXCEPT !.sgn = -@], -threshold)

\* detected = bool(snr >= detection_threshold)
Detected(snr, threshold) == SnrGE(snr, threshold)

TrialSuccess(inj, noise, gen, flux, rec, threshold) ==
    [ok |-> TRUE, kind |-> "", msg |-> "", rng |-> gen,
     result |-> [injection       |-> inj,
                 recovered_depth |-> rec.recovered_depth,
                 snr             |-> rec.snr,
                 detected        |-> Detected(rec.snr, threshold),
                 flux            |-> flux,
                 noise           |-> noise]]

\* recovered_depth, snr = recover_box_depth(time, flux, err, inj)
AfterRecover(inj, noise, gen, flux, rec, threshold) ==
    IF ~rec.ok THEN TrialFailure(rec, gen)
    ELSE TrialSuccess(inj, noise, gen, flux, rec, threshold)

\* err = np.full_like(flux, np.nanstd(flux)) or np.asarray(flux_err)
AfterSum(tm, ferr, inj, noise, gen, flux, threshold) ==
    IF ~ferr.none /\ Len(ferr.elems) # Len(tm.data)
    THEN TrialFailure(Raised("ValueError", "flux_err must match time"), gen)
    ELSE AfterRecover(inj, noise, gen, flux,
                      recover_box_depth(tm, flux, ErrOrDefault(flux, ferr), inj),
                      threshold)

\* variant: the noise is added twice
AddNoiseDoubled(signal, noise) ==
    [i \in 1..Len(signal) |-> signal[i] + 2 * noise[i]]

\* flux = signal + noise
AddNoise(signal, noise) == [i \in 1..Len(signal) |-> signal[i] + noise[i]]

AfterInject(tm, ferr, inj, noise, gen, signal, threshold) ==
    IF ~signal.ok THEN TrialFailure(signal, gen)
    ELSE AfterSum(tm, ferr, inj, noise, gen, AddNoise(signal.flux, noise), threshold)

\* signal = inject_box_transit(time, inj)
AfterDraw(tm, ferr, inj, drawn, threshold) ==
    IF ~drawn.ok THEN TrialFailure(drawn, drawn.rng)
    ELSE AfterInject(tm, ferr, inj, drawn.noise, drawn.rng,
                     inject_box_transit(tm, inj), threshold)

\* variant: the generator is first moved on by the injection's duration
LoopBodySkipping(tm, ferr, inj, config, threshold, gen, la) ==
    AfterDraw(tm, ferr, inj,
              draw_qp_noise(tm, config, Gen(gen.seed, gen.pos + inj.duration),
                            NoGen, la), threshold)

\* variant: the noise is drawn twice and the second realization used
LoopBodyDrawsTwice(tm, ferr, inj, config, threshold, gen, la) ==
    AfterDraw(tm, ferr, inj,
              draw_qp_noise(tm, config,
                            draw_qp_noise(tm, config, gen, NoGen, la).rng,
                            NoGen, la), threshold)

\* variant: the signal is built first, and a rejected injection draws nothing
LoopBodyInjectFirst(tm, ferr, inj, config, threshold, gen, la) ==
    IF ~inject_box_transit(tm, inj).ok
    THEN TrialFailure(inject_box_transit(tm, inj), gen)
    ELSE AfterDraw(tm, ferr, inj, draw_qp_noise(tm, config, gen, NoGen, la),
                   threshold)

\* One pass of the loop body for injection inj, drawing from generator gen:
\* noise = draw_qp_noise(time, qp_config, random_state=random_state) ...
LoopBody(tm, ferr, inj, config, threshold, gen, la) ==
    AfterDraw(tm, ferr, inj, draw_qp_noise(tm, config, gen, NoGen, la), threshold)

\* variant: the shape of flux_err is checked with time, before the loop
EnteredShapeChecked(valid) ==
    IF ~valid.ok
    THEN /\ pc' = "raised"
         /\ error' = valid
         /\ rng' = rng
    ELSE IF ~flux_err.none /\ Len(flux_err.elems) # Len(time.data)
    THEN /\ pc' = "raised"
         /\ error' = Raised("ValueError", "flux_err must match time")
         /\ rng' = rng
    ELSE /\ pc' = "loop"
         /\ error' = error
         /\ \E seed \in Seeds :
                rng' = ResolveGenerator(random_state, Gen(seed, 0))

\* time = _validate_time_array(time); the generator is resolved
Entered(valid) ==
    IF ~valid.ok
    THEN /\ pc' = "raised"
         /\ error' = valid
         /\ rng' = rng
    ELSE /\ pc' = "loop"
         /\ error' = error
         /\ \E seed \in Seeds :
                rng' = ResolveGenerator(random_state, Gen(seed, 0))

Enter ==
    /\ pc = "call"
    /\ Entered(validate_time_array(time))
    /\ UNCHANGED <<args, idx, results, ret, prev, direct>>

\* variant: the result is put in front of the list
TrialEndsPrepend(t) ==
    /\ rng' = t.rng
    /\ idx' = idx + 1
    /\ IF t.ok
       THEN /\ results' = <<t.result>> \o results
            /\ pc' = pc
            /\ error' = error
       ELSE /\ results' = results
            /\ pc' = "raised"
            /\ error' = Raised(t.kind, t.msg)

\* variant: a failed trial is skipped and the loop goes on
TrialEndsSkip(t) ==
    /\ rng' = t.rng
    /\ idx' = idx + 1
    /\ results' = IF t.ok THEN Append(results, t.result) ELSE results
    /\ pc' = pc
    /\ error' = error

\* the loop body ends: results.append(...), or the exception leaves the call
TrialEnds(t) ==
    /\ rng' = t.rng
    /\ idx' = idx + 1
    /\ IF t.ok
       THEN /\ results' = Append(results, t.result)
            /\ pc' = pc
            /\ error' = error
       ELSE /\ results' = results
            /\ pc' = "raised"
            /\ error' = Raised(t.kind, t.msg)

\* for inj in injections: ...
Trial ==
    /\ pc = "loop"
    /\ idx < Len(injections)
    /\ TrialEnds(LoopBody(time, flux_err, injections[idx + 1], qp_config,
                          detection_threshold, rng, linalg))
    /\ UNCHANGED <<args, ret, prev, direct>>

\* return results
Return ==
    /\ pc = "loop"
    /\ idx = Len(injections)
    /\ pc' = "returned"
    /\ ret' = [returned |-> TRUE, value |-> results]
    /\ UNCHANGED <<args, rng, idx, results, error, prev, direct>>

\* The caller calls again with equal arguments and, when it passed a
\* generator, one seeded as the first was.
Rerun ==
    /\ pc \in {"returned", "raised"}
    /\ prev = NoPrev
    /\ prev' = [pc |-> pc, ret |-> ret, error |-> error, rng |-> rng]
    /\ pc' = "call"
    /\ rng' = random_state
    /\ idx' = 0
    /\ results' = <<>>
    /\ ret' = NoReturn
    /\ error' = NoError
    /\ UNCHANGED <<args, direct>>

\* ------------------------------------------------------------ inputs
RunInjections ==
    {Injection(7, 2, 4, 0),     \* in transit on ticks 0, 1, 3
     Injection(2, 1, 4, 1),     \* in transit on tick 1 only
     Injection(0, 2, 4, 0),     \* depth = 0
     Injection(3, 4, 4, 0)}     \* duration = period: no sample out of transit

RunTimes ==
    {TimeArray(<<0, 1, 2, 3>>), TimeArray(<<1, 2>>), TimeArray(<<>>)}

RunConfigs ==
    {Config(0, 1, 1, 1, 0), Config(2, 1, 2, 1, 1), Config(0, 0, 1, 1, 2)}

Thresholds == {2, DefaultThreshold}

InitArgs ==
    /\ time \in RunTimes
    /\ flux_err \in FluxErrs(Len(time.data))
    /\ injections \in ListsUpTo(RunInjections, MaxInj)
    /\ qp_config \in RunConfigs
    /\ detection_threshold \in Thresholds
    /\ random_state \in {NoGen} \cup {Gen(seed, 0) : seed \in Seeds}
    /\ linalg \in [first : BOOLEAN, retry : BOOLEAN]

InitRun ==
    /\ pc = "call"
    /\ rng = random_state
    /\ idx = 0
    /\ results = <<>>
    /\ ret = NoReturn
    /\ error = NoError
    /\ prev = NoPrev

InitDirect ==
    /\ inject_call = NotCalledInject
    /\ recover_call = NotCalledRecover
    /\ draw_call = NoDraw
    /\ draw_prev = NoDraw
    /\ estimate_call = NoEstimate
    /\ fold_call = NotCalled
    /\ mask_call = NotCalled

Init ==
    /\ InitArgs
    /\ InitRun
    /\ InitDirect

Next == Enter \/ Trial \/ Return

Spec == Init /\ [][Next]_vars

\* ----------------------------------------------------------- two runs
InitTwice ==
    /\ time \in RunTimes
    /\ flux_err \in {NoneErr, ErrArray([i \in 1..Len(time.data) |-> ErrElem(1)])}
    /\ injections \in ListsUpTo(RunInjections, MaxInj)
    /\ qp_config \in RunConfigs
    /\ detection_threshold = 2
    /\ random_state \in {NoGen} \cup {Gen(seed, 0) : seed \in Seeds}
    /\ linalg \in [first : BOOLEAN, retry : BOOLEAN]
    /\ InitRun
    /\ InitDirect

NextTwice == Enter \/ Trial \/ Return \/ Rerun

SpecTwice == InitTwice /\ [][NextTwice]_vars

\* ========================================= direct calls of the parts
\* The caller calls inject_box_transit(time, injections[0]).
CallInject ==
    /\ pc = "idle"
    /\ ~inject_call.called
    /\ inject_call' = [called |-> TRUE,
                       out |-> inject_box_transit(time, injections[1])]
    /\ UNCHANGED <<args, run, prev, recover_call, draw_call, draw_prev,
                 estimate_call, fold_call, mask_call>>

\* The caller hands the injected flux to recover_box_depth.
CallRecover ==
    /\ pc = "idle"
    /\ inject_call.called
    /\ inject_call.out.ok
    /\ ~recover_call.called
    /\ recover_call' = [called |-> TRUE,
                        out |-> recover_box_depth(time, inject_call.out.flux,
                                                  flux_err, injections[1])]
    /\ UNCHANGED <<args, run, prev, inject_call, draw_call, draw_prev,
                 estimate_call, fold_call, mask_call>>

IdleRun ==
    /\ pc = "idle"
    /\ rng = NoGen
    /\ idx = 0
    /\ results = <<>>
    /\ ret = NoReturn
    /\ error = NoError
    /\ prev = NoPrev

DirectInjections ==
    {Injection(depth, duration, period, t0) :
        depth \in {-1, 0, 3}, duration \in {-1, 0, 1, 2, 4, 6},
        period \in {-2, 0, 2, 4, 24}, t0 \in {-3, 0, 1, 5, 13}}

InitInject ==
    /\ time \in ValidTimes \cup InvalidTimes
    /\ flux_err \in FluxErrs(Len(time.data))
    /\ injections \in {<<inj>> : inj \in DirectInjections}
    /\ qp_config = Config(0, 1, 1, 1, 0)
    /\ detection_threshold = DefaultThreshold
    /\ random_state = NoGen
    /\ linalg = [first |-> FALSE, retry |-> FALSE]
    /\ IdleRun
    /\ InitDirect

NextInject == CallInject \/ CallRecover

SpecInject == InitInject /\ [][NextInject]_vars

\* ------------------------------------------- draw_qp_noise, step by step
\* time = _validate_time_array(time); the generator is resolved and the
\* covariance built
DrawEntered(valid) ==
    IF ~valid.ok
    THEN draw_call' = [draw_call EXCEPT !.pc = "raised", !.error = valid]
    ELSE \E seed \in Seeds :
             draw_call' = [draw_call EXCEPT
                             !.pc = "try",
                             !.rng = ResolveGenerator(random_state, Gen(seed, 0)),
                             !.cov = QPCovariance(qp_config)]

DrawEnter ==
    /\ draw_call.pc = "call"
    /\ DrawEntered(validate_time_array(time))
    /\ UNCHANGED <<args, run, prev, inject_call, recover_call, draw_prev,
                 estimate_call, fold_call, mask_call>>

\* variant: a failed retry is caught and retried
AfterFailedRetryAgain == "except"

\* where a failed attempt leaves the call: the first is caught, the retry
\* is not
AfterFailedTry == "except"

AfterFailedRetry == "raised"

Attempted(a, failed_pc, cov) ==
    draw_call' = [draw_call EXCEPT
                    !.pc = IF a.ok THEN "returned" ELSE failed_pc,
                    !.cov = cov,
                    !.rng = a.rng,
                    !.attempts = @ + 1,
                    !.noise = a.noise,
                    !.error = IF a.ok \/ failed_pc # "raised" THEN NoError
                              ELSE Raised("LinAlgError", "SVD did not converge")]

\* try: noise = random_state.multivariate_normal(np.zeros(time.size), cov)
DrawTry ==
    /\ draw_call.pc = "try"
    /\ Attempted(MultivariateNormal(draw_call.rng, Len(time.data), draw_call.cov,
                                    linalg.first), AfterFailedTry, draw_call.cov)
    /\ UNCHANGED <<args, run, prev, inject_call, recover_call, draw_prev,
                 estimate_call, fold_call, mask_call>>

\* except np.linalg.LinAlgError: cov is rebound to the escalated covariance
\* and sampled again
DrawRetry ==
    /\ draw_call.pc = "except"
    /\ Attempted(MultivariateNormal(draw_call.rng, Len(time.data),
                                    RetryCovariance(draw_call.cov, qp_config),
                                    linalg.retry), AfterFailedRetry,
                 RetryCovariance(draw_call.cov, qp_config))
    /\ UNCHANGED <<args, run, prev, inject_call, recover_call, draw_prev,
                 estimate_call, fold_call, mask_call>>

\* The caller calls again with equal arguments and, when it passed a
\* generator, one seeded as the first was.
DrawAgain ==
    /\ draw_call.pc \in {"returned", "raised"}
    /\ draw_prev = NoDraw
    /\ draw_prev' = draw_call
    /\ draw_call' = NewDraw(random_state)
    /\ UNCHANGED <<args, run, prev, inject_call, recover_call,
                 estimate_call, fold_call, mask_call>>

NoiseConfigs ==
    {Config(amplitude, timescale, period, gamma, jitter) :
        amplitude \in {-2, 0, 2}, timescale \in {0, 1}, period \in {-1, 2},
        gamma \in {0, 1}, jitter \in {0, 1, 2}}

InitNoise ==
    /\ time \in ValidTimes \cup InvalidTimes
    /\ flux_err = NoneErr
    /\ injections = <<>>
    /\ qp_config \in NoiseConfigs
    /\ detection_threshold = DefaultThreshold
    /\ random_state \in {NoGen} \cup {Gen(seed, 0) : seed \in Seeds}
    /\ linalg \in [first : BOOLEAN, retry : BOOLEAN]
    /\ IdleRun
    /\ inject_call = NotCalledInject
    /\ recover_call = NotCalledRecover
    /\ draw_call = NewDraw(random_state)
    /\ draw_prev = NoDraw
    /\ estimate_call = NoEstimate
    /\ fold_call = NotCalled
    /\ mask_call = NotCalled

NextNoise == DrawEnter \/ DrawTry \/ DrawRetry \/ DrawAgain

SpecNoise == InitNoise /\ [][NextNoise]_vars

InitNoiseFair ==
    /\ time \in RunTimes
    /\ flux_err = NoneErr
    /\ injections = <<>>
    /\ qp_config \in RunConfigs
    /\ detection_threshold = DefaultThreshold
    /\ random_state \in {NoGen} \cup {Gen(seed, 0) : seed \in Seeds}
    /\ linalg \in [first : BOOLEAN, retry : BOOLEAN]
    /\ IdleRun
    /\ inject_call = NotCalledInject
    /\ recover_call = NotCalledRecover
    /\ draw_call = NewDraw(random_state)
    /\ draw_prev = NoDraw
    /\ estimate_call = NoEstimate
    /\ fold_call = NotCalled
    /\ mask_call = NotCalled

\* The interpreter runs a call to its end.
SpecNoiseFair == InitNoiseFair /\ [][NextNoise]_vars /\ WF_vars(NextNoise)

\* ============================================================ claims
\* C1: when run_injection_recovery returns, the list has exactly one result
\* per input injection and the k-th result's injection field is the k-th
\* input injection (order kept, none skipped, none duplicated).
C1_OneResultPerInjection ==
    pc = "returned" =>
        /\ ret.returned
        /\ Len(ret.value) = Len(injections)
        /\ \A k \in 1..Len(injections) : ret.value[k].injection = injections[k]

\* two different injections went in and two results came back
C1_Witness ==
    /\ pc = "returned"
    /\ Len(injections) = 2
    /\ injections[1] # injections[2]
    /\ Len(ret.value) = 2

\* A trial of injection inj fails whatever the noise is: no factorisation
\* converges, inject_box_transit rejects inj, flux_err has the wrong shape
\* or no usable entry, or the window leaves one of the two groups empty.
MustFail(inj) ==
    \/ linalg.first /\ linalg.retry
    \/ ~inject_box_transit(time, inj).ok
    \/ ~flux_err.none /\ Len(flux_err.elems) # Len(time.data)
    \/ ~flux_err.none /\ \A i \in 1..Len(flux_err.elems) : ~flux_err.elems[i].valid
    \/ \A i \in 1..Len(time.data) : InTransit(time.data[i], inj)
    \/ \A i \in 1..Len(time.data) : ~InTransit(time.data[i], inj)

\* C2: an error raised while trial k is processed aborts the whole call: the
\* error reaches the caller, no later injection is processed, the results
\* of the earlier trials are not returned, and no result is recorded for
\* the failing trial.
C2_FailingTrialAborts ==
    /\ \A k \in 1..Len(injections) :
           (idx >= k /\ MustFail(injections[k])) =>
               /\ pc = "raised"
               /\ idx = k
               /\ Len(results) < k
    /\ pc = "raised" =>
           /\ ~error.ok
           /\ error.kind \in {"ValueError", "LinAlgError", "ZeroDivisionError"}
           /\ ret = NoReturn
           /\ ~ENABLED Trial
           /\ ~ENABLED Return
    /\ \A k \in 1..Len(results) : ~MustFail(results[k].injection)

\* the first of two trials failed, and the second, which would have
\* succeeded, was never processed
C2_Witness ==
    /\ pc = "raised"
    /\ Len(injections) = 2
    /\ idx = 1
    /\ MustFail(injections[1])
    /\ ~MustFail(injections[2])
    /\ error.kind = "ValueError"

\* C3: in every result, detected is true exactly when the result's snr is
\* greater than or equal to the detection_threshold of the call.
C3_DetectedIffSnrAtLeastThreshold ==
    /\ \A k \in 1..Len(results) :
           results[k].detected = SnrGE(results[k].snr, detection_threshold)
    /\ \A k \in 1..Len(ret.value) :
           ret.value[k].detected = SnrGE(ret.value[k].snr, detection_threshold)

\* a returned result whose snr equals the threshold, and is detected
C3_Witness ==
    /\ pc = "returned"
    /\ \E k \in 1..Len(ret.value) :
           /\ ret.value[k].snr.sgn = 1
           /\ ret.value[k].snr.sq.n =
                  detection_threshold * detection_threshold * ret.value[k].snr.sq.d
           /\ ret.value[k].detected

\* C4: two runs with equal arguments and generators seeded alike end alike:
\* the same results element by element (noise, flux, recovered_depth, snr,
\* detected), or the same error.
C4_RunsAgree ==
    (/\ prev.pc # "none"
     /\ pc \in {"returned", "raised"}
     /\ ~random_state.none) =>
        /\ pc = prev.pc
        /\ ret = prev.ret
        /\ error = prev.error
        /\ rng = prev.rng

\* both runs returned two results with noise that is not zero
C4_Witness ==
    /\ prev.pc = "returned"
    /\ pc = "returned"
    /\ ~random_state.none
    /\ Len(ret.value) = 2
    /\ \E i \in 1..Len(time.data) : ret.value[1].noise[i] # 0
    /\ ret.value[1].noise # ret.value[2].noise

\* C5: two calls of draw_qp_noise with the same time, the same config and
\* generators seeded alike return the same noise vector (or fail alike), and
\* a returned vector has the shape of time.
C5_NoiseReproducible ==
    /\ draw_call.pc = "returned" =>
           /\ time.ndim = 1
           /\ Len(draw_call.noise) = Len(time.data)
    /\ (/\ draw_prev.pc \in {"returned", "raised"}
        /\ draw_call.pc \in {"returned", "raised"}
        /\ ~random_state.none) =>
           /\ draw_call.pc = draw_prev.pc
           /\ draw_call.noise = draw_prev.noise
           /\ draw_call.error = draw_prev.error

\* both calls returned a vector of several samples that is not all zero
C5_Witness ==
    /\ draw_prev.pc = "returned"
    /\ draw_call.pc = "returned"
    /\ ~random_state.none
    /\ Len(draw_call.noise) >= 2
    /\ \E i \in 1..Len(draw_call.noise) : draw_call.noise[i] # 0

DrawDone == draw_call.pc \in {"returned", "raised"}

\* C6: draw_qp_noise samples at most twice per call, the second time only
\* after the first failed; a second failure leaves the call as an error and
\* nothing is tried a third time; every call ends with a noise vector or an
\* error.
C6_BoundedRetry ==
    /\ [](/\ draw_call.attempts <= 2
          /\ draw_call.pc = "try" => draw_call.attempts = 0
          /\ draw_call.pc = "except" => draw_call.attempts = 1
          /\ draw_call.attempts = 2 => DrawDone
          /\ (draw_call.pc = "raised" /\ draw_call.attempts > 0) =>
                 /\ draw_call.attempts = 2
                 /\ linalg.first /\ linalg.retry
                 /\ draw_call.error.kind = "LinAlgError"
          /\ draw_call.pc = "returned" =>
                 /\ draw_call.error.ok
                 /\ Len(draw_call.noise) = Len(time.data)
          /\ draw_call.pc = "raised" =>
                 /\ ~draw_call.error.ok
                 /\ draw_call.noise = <<>>)
    /\ (draw_call.pc = "call") ~> DrawDone

\* both attempts failed and the call ended with the second one's error
C6_Witness ==
    /\ draw_call.pc = "raised"
    /\ draw_call.attempts = 2
    /\ draw_call.error.kind = "LinAlgError"

\* C7: inject_box_transit fails with a validation error whenever depth <= 0,
\* duration <= 0 or period <= 0, and returns no flux then.
C7_InjectRejectsNonPositive ==
    (/\ inject_call.called
     /\ \/ injections[1].depth <= 0
        \/ injections[1].duration <= 0
        \/ injections[1].period <= 0) =>
        /\ ~inject_call.out.ok
        /\ inject_call.out.kind = "ValueError"
        /\ inject_call.out.flux = NoFlux

\* depth = 0 alone, on a valid time grid, was rejected
C7_Witness ==
    /\ inject_call.called
    /\ validate_time_array(time).ok
    /\ injections[1].depth = 0
    /\ injections[1].duration > 0
    /\ injections[1].period > 0
    /\ ~inject_call.out.ok

\* C8: every element of the flux inject_box_transit returns is 1.0 or
\* 1.0 - depth; it is 1.0 - depth exactly when |phase| <= duration / 2; the
\* minimum is 1.0 - depth when a sample is in transit and the maximum is 1.0
\* when a sample is out of transit.
C8_BoxFluxValues ==
    (inject_call.called /\ inject_call.out.ok) =>
        /\ Len(inject_call.out.flux) = Len(time.data)
        /\ \A i \in 1..Len(time.data) :
               /\ inject_call.out.flux[i] \in {One, One - injections[1].depth}
               /\ (inject_call.out.flux[i] = One - injections[1].depth)
                      <=> (2 * Abs(Phase(time.data[i], injections[1]))
                               <= injections[1].duration)
               /\ inject_call.out.flux[i] >= One - injections[1].depth
               /\ inject_call.out.flux[i] <= One
        /\ (\E i \in 1..Len(time.data) :
                2 * Abs(Phase(time.data[i], injections[1])) <= injections[1].duration)
               => \E i \in 1..Len(time.data) :
                      inject_call.out.flux[i] = One - injections[1].depth
        /\ (\E i \in 1..Len(time.data) :
                2 * Abs(Phase(time.data[i], injections[1])) > injections[1].duration)
               => \E i \in 1..Len(time.data) : inject_call.out.flux[i] = One

\* a flux with a sample on the edge of the window (|phase| = duration / 2)
\* and a sample outside it
C8_Witness ==
    /\ inject_call.called
    /\ inject_call.out.ok
    /\ \E i \in 1..Len(time.data) :
           /\ 2 * Abs(Phase(time.data[i], injections[1])) = injections[1].duration
           /\ inject_call.out.flux[i] = One - injections[1].depth
    /\ \E i \in 1..Len(time.data) : inject_call.out.flux[i] = One

\* C9: for every sample t, epoch t0 and period P > 0 the phase lies in
\* [-P/2, P/2) and differs from t - t0 by a multiple of P.
C9_PhaseInHalfOpenInterval ==
    (inject_call.called /\ inject_call.out.ok) =>
        \A i \in 1..Len(time.data) :
            /\ -injections[1].period <= 2 * Phase(time.data[i], injections[1])
            /\ 2 * Phase(time.data[i], injections[1]) < injections[1].period
            /\ (Phase(time.data[i], injections[1])
                    - (time.data[i] - injections[1].t0)) % injections[1].period = 0

\* flux_err is an array of the shape of time whose entries are one positive
\* value
UniformPositive(ferr) ==
    /\ ~ferr.none
    /\ Len(ferr.elems) = Len(time.data)
    /\ \A i \in 1..Len(ferr.elems) : ferr.elems[i].valid /\ ferr.elems[i] = ferr.elems[1]

InWindow(i) ==
    2 * Abs(Phase(time.data[i], injections[1])) <= injections[1].duration

\* C11: recover_box_depth fails with a validation error when no sample is in
\* transit and also when no sample is out of transit, and returns no
\* (depth, snr) pair then.
C11_EmptyGroupRejected ==
    (/\ recover_call.called
     /\ \/ \A i \in 1..Len(time.data) : InWindow(i)
        \/ \A i \in 1..Len(time.data) : ~InWindow(i)) =>
        /\ ~recover_call.out.ok
        /\ recover_call.out.kind = "ValueError"
        /\ recover_call.out.recovered_depth = NoDepth
        /\ recover_call.out.snr = NoSnr
        /\ UniformPositive(flux_err) =>
               recover_call.out.msg =
                   IF \A i \in 1..Len(time.data) : ~InWindow(i)
                   THEN "No samples fall within the transit window for recovery"
                   ELSE "No out-of-transit samples available for baseline estimation"

\* every sample in transit, usable errors: the baseline group is empty
C11_Witness ==
    /\ recover_call.called
    /\ Len(time.data) >= 2
    /\ \A i \in 1..Len(time.data) : InWindow(i)
    /\ UniformPositive(flux_err)
    /\ recover_call.out.msg =
           "No out-of-transit samples available for baseline estimation"

\* the errors recover_box_depth weighs with: flux_err, or the scatter of flux
ErrorsUsed == ErrOrDefault(inject_call.out.flux, flux_err).elems

\* C12: recover_box_depth fails with its validation error whenever the
\* in-transit or the out-of-transit group holds no sample of positive
\* weight, also when the other group does.
C12_ZeroWeightGroupRejected ==
    (/\ recover_call.called
     /\ Len(ErrorsUsed) = Len(time.data)
     /\ \/ \A i \in 1..Len(time.data) : InWindow(i) => ~ErrorsUsed[i].valid
        \/ \A i \in 1..Len(time.data) : ~InWindow(i) => ~ErrorsUsed[i].valid) =>
        /\ ~recover_call.out.ok
        /\ recover_call.out.kind = "ValueError"

\* ------------------------------------------------ validation at entry
\* The four functions that take time, each called on the same arguments:
\* draw_qp_noise step by step, inject_box_transit, recover_box_depth on a
\* flux of the caller's own (all ones), and then run_injection_recovery.

\* flux = np.ones_like(time), the caller's light curve
FlatFlux == [i \in 1..Len(time.data) |-> One]

CallRecoverFlat ==
    /\ pc = "idle"
    /\ ~recover_call.called
    /\ recover_call' = [called |-> TRUE,
                        out |-> recover_box_depth(time, FlatFlux, flux_err,
                                                  injections[1])]
    /\ UNCHANGED <<args, run, prev, inject_call, draw_call, draw_prev,
                 estimate_call, fold_call, mask_call>>

\* run_injection_recovery(time, flux_err, injections, qp_config, ...)
CallRun ==
    /\ pc = "idle"
    /\ pc' = "call"
    /\ rng' = random_state
    /\ UNCHANGED <<args, idx, results, ret, error, prev, direct>>

InitValidate ==
    /\ time \in ValidTimes \cup InvalidTimes
    /\ flux_err \in {NoneErr, ErrArray([i \in 1..Len(time.data) |-> ErrElem(1)])}
    /\ injections \in {<<inj>> : inj \in RunInjections}
    /\ qp_config \in {Config(0, 1, 1, 1, 0), Config(2, 1, 2, 1, 1)}
    /\ detection_threshold = DefaultThreshold
    /\ random_state \in {NoGen, Gen(1, 0)}
    /\ linalg \in {[first |-> FALSE, retry |-> FALSE],
                   [first |-> TRUE, retry |-> FALSE]}
    /\ IdleRun
    /\ inject_call = NotCalledInject
    /\ recover_call = NotCalledRecover
    /\ draw_call = NewDraw(random_state)
    /\ draw_prev = NoDraw
    /\ estimate_call = NoEstimate
    /\ fold_call = NotCalled
    /\ mask_call = NotCalled

NextValidate ==
    \/ DrawEnter \/ DrawTry \/ DrawRetry
    \/ CallInject \/ CallRecoverFlat
    \/ CallRun \/ Enter \/ Trial \/ Return

SpecValidate == InitValidate /\ [][NextValidate]_vars

\* time is not one-dimensional, is empty, or holds a non-finite value
BadTime ==
    \/ time.ndim # 1
    \/ Len(time.data) = 0
    \/ \E i \in 1..Len(time.finite) : ~time.finite[i]

\* C13: draw_qp_noise, inject_box_transit, recover_box_depth and
\* run_injection_recovery fail with a validation error when time is not
\* one-dimensional, is empty or holds a non-finite value, at entry: no
\* generator is created or advanced, nothing is sampled and no result built.
C13_BadTimeRejectedAtEntry ==
    BadTime =>
        /\ draw_call.pc # "call" =>
               /\ draw_call.pc = "raised"
               /\ draw_call.error.kind = "ValueError"
               /\ draw_call.rng = random_state
               /\ draw_call.attempts = 0
               /\ draw_call.noise = <<>>
        /\ inject_call.called =>
               /\ ~inject_call.out.ok
               /\ inject_call.out.kind = "ValueError"
               /\ inject_call.out.flux = NoFlux
        /\ recover_call.called =>
               /\ ~recover_call.out.ok
               /\ recover_call.out.kind = "ValueError"
        /\ pc \notin {"idle", "call"} =>
               /\ pc = "raised"
               /\ error.kind = "ValueError"
               /\ rng = random_state
               /\ idx = 0
               /\ results = <<>>
               /\ ret = NoReturn

\* all four have been called on a time with a non-finite sample
C13_Witness ==
    /\ time.ndim = 1
    /\ \E i \in 1..Len(time.finite) : ~time.finite[i]
    /\ draw_call.pc = "raised"
    /\ inject_call.called
    /\ recover_call.called
    /\ pc = "raised"
    /\ error.msg = "time contains non-finite values"

\* ------------------------------------------- a run on another list
\* the injections of RunInjections that are valid and leave samples out of
\* transit
OtherInjections ==
    {inj \in RunInjections : inj.depth > 0 /\ inj.duration < inj.period}

\* The caller calls again with a list of the same length, all else equal,
\* the generator seeded as the first was.
RerunOther ==
    /\ pc \in {"returned", "raised"}
    /\ prev = NoPrev
    /\ prev' = [pc |-> pc, ret |-> ret, error |-> error, rng |-> rng,
                injections |-> injections, results |-> results]
    /\ injections' \in {l \in ListsUpTo(OtherInjections, MaxInj) :
                            Len(l) = Len(injections)}
    /\ pc' = "call"
    /\ rng' = random_state
    /\ idx' = 0
    /\ results' = <<>>
    /\ ret' = NoReturn
    /\ error' = NoError
    /\ UNCHANGED <<time, flux_err, qp_config, detection_threshold,
                   random_state, linalg, direct>>

InitOther ==
    /\ time \in {TimeArray(<<0, 1, 2, 3>>), TimeArray(<<1, 2>>)}
    /\ flux_err \in {NoneErr, ErrArray([i \in 1..Len(time.data) |-> ErrElem(1)])}
    /\ injections \in ListsUpTo(OtherInjections, MaxInj)
    /\ qp_config \in RunConfigs
    /\ detection_threshold = 0
    /\ random_state \in {NoGen} \cup {Gen(seed, 0) : seed \in Seeds}
    /\ linalg \in {[first |-> FALSE, retry |-> FALSE],
                   [first |-> TRUE, retry |-> FALSE]}
    /\ InitRun
    /\ InitDirect

NextOther == Enter \/ Trial \/ Return \/ RerunOther

SpecOther == InitOther /\ [][NextOther]_vars

\* C14: two runs of run_injection_recovery with generators seeded alike,
\* the same time, flux_err, config and list length, all injections valid:
\* wherever the two lists hold the same injection at index i and both runs
\* reached trial i, the i-th results are equal in every field.
C14_TrialsIndependent ==
    (/\ prev.pc \in {"returned", "raised"}
     /\ ~random_state.none) =>
        \A i \in 1..Len(results) :
            (i <= Len(prev.results) /\ prev.injections[i] = injections[i]) =>
                results[i] = prev.results[i]

\* both runs returned; the lists differ at index 1 and agree at index 2,
\* and the second trial's noise is not zero
C14_Witness ==
    /\ prev.pc = "returned"
    /\ pc = "returned"
    /\ ~random_state.none
    /\ Len(ret.value) = 2
    /\ prev.injections[1] # injections[1]
    /\ prev.injections[2] = injections[2]
    /\ prev.ret.value[1] # ret.value[1]
    /\ \E i \in 1..Len(time.data) : ret.value[2].noise[i] # 0

\* the largest |noise[i]| of a result
MaxNoise(result) ==
    CHOOSE m \in 0..(2 * One) :
        /\ \A i \in 1..Len(result.noise) : Abs(result.noise[i]) <= m
        /\ \E i \in 1..Len(result.noise) : Abs(result.noise[i]) = m

\* C15 as stated: with detection_threshold = 0 and a zero-amplitude
\* config, every trial of a returned run is detected and its
\* recovered_depth equals the injected depth.
C15_NoiselessAllDetected ==
    (/\ pc = "returned"
     /\ detection_threshold = 0
     /\ qp_config.amplitude = 0) =>
        \A k \in 1..Len(ret.value) :
            /\ ret.value[k].detected
            /\ ret.value[k].recovered_depth.n =
                   ret.value[k].injection.depth * ret.value[k].recovered_depth.d

\* C15 amended: with detection_threshold = 0 and a zero-amplitude config
\* the trials still carry white noise; each recorded recovered_depth lies
\* within 2 * max|noise| of the injected depth, and a trial whose depth
\* exceeds 2 * max|noise| is detected.
C15_DetectedWithinNoise ==
    (/\ detection_threshold = 0
     /\ qp_config.amplitude = 0) =>
        \A k \in 1..Len(results) :
            /\ Abs(results[k].recovered_depth.n
                   - results[k].injection.depth * results[k].recovered_depth.d)
                   <= 2 * MaxNoise(results[k]) * results[k].recovered_depth.d
            /\ results[k].injection.depth > 2 * MaxNoise(results[k]) =>
                   results[k].detected

\* a returned run under a zero-amplitude config whose noise moved a
\* recovered depth, every trial still detected
C15_Witness ==
    /\ pc = "returned"
    /\ detection_threshold = 0
    /\ qp_config.amplitude = 0
    /\ Len(ret.value) = 2
    /\ \A k \in 1..2 : ret.value[k].detected
    /\ ret.value[1].injection.depth > 2 * MaxNoise(ret.value[1])
    /\ ret.value[1].recovered_depth.n #
           ret.value[1].injection.depth * ret.value[1].recovered_depth.d

\* the deviation of each sample of a returned draw when amplitude = 0:
\* jitter (or the floor), and after a retry the root of the escalated diagonal
WhiteDeviation ==
    IF draw_call.attempts = 1
    THEN IF qp_config.jitter > 0 THEN qp_config.jitter ELSE Tiny
    ELSE Isqrt((IF qp_config.jitter > 0 THEN qp_config.jitter * qp_config.jitter
                ELSE Tiny * Tiny)
               + (IF qp_config.jitter > Tiny THEN qp_config.jitter ELSE Tiny) * One)

\* C16 as stated: with amplitude = 0 draw_qp_noise returns a vector of zeros.
C16_ZeroAmplitudeZeroNoise ==
    (draw_call.pc = "returned" /\ qp_config.amplitude = 0) =>
        \A i \in 1..Len(draw_call.noise) : draw_call.noise[i] = 0

\* C16 amended: with amplitude = 0 the covariance is its diagonal alone, and
\* draw_qp_noise returns white noise: sample i is the i-th variate of the
\* call scaled by jitter (by the floor 1e-6 when jitter <= 0).
C16_ZeroAmplitudeWhiteNoise ==
    (draw_call.pc = "returned" /\ qp_config.amplitude = 0) =>
        /\ draw_call.cov.amp2 = 0
        /\ \E seed \in Seeds :
               \A i \in 1..Len(draw_call.noise) :
                   draw_call.noise[i] =
                       WhiteDeviation
                       * Variate(seed, draw_call.rng.pos - Len(draw_call.noise) + i - 1)

\* a first-attempt draw with amplitude 0 and jitter 2 that is not zero
C16_Witness ==
    /\ draw_call.pc = "returned"
    /\ draw_call.attempts = 1
    /\ qp_config.amplitude = 0
    /\ qp_config.jitter = 2
    /\ Len(draw_call.noise) >= 2
    /\ \E i \in 1..Len(draw_call.noise) : Abs(draw_call.noise[i]) = 2

\* C17 as stated: draw_qp_noise raises a validation error at entry when
\* timescale, period, gamma or amplitude is not positive.
C17_NonPositiveConfigRejected ==
    (/\ draw_call.pc # "call"
     /\ \/ qp_config.timescale <= 0
        \/ qp_config.period <= 0
        \/ qp_config.gamma <= 0
        \/ qp_config.amplitude <= 0) =>
        /\ draw_call.pc = "raised"
        /\ draw_call.error.kind = "ValueError"
        /\ draw_call.attempts = 0

\* C17 amended: draw_qp_noise validates time only.  On a valid time no
\* config value raises a validation error: timescale, period and gamma
\* below 1e-6 are replaced by 1e-6, and amplitude is squared as given.
C17_ConfigFlooredNotRejected ==
    (~BadTime /\ draw_call.pc # "call") =>
        /\ draw_call.error.kind # "ValueError"
        /\ draw_call.cov.amp2 = qp_config.amplitude * qp_config.amplitude
        /\ draw_call.cov.timescale =
               IF qp_config.timescale < Tiny THEN Tiny ELSE qp_config.timescale
        /\ draw_call.cov.period =
               IF qp_config.period < Tiny THEN Tiny ELSE qp_config.period
        /\ draw_call.cov.gamma =
               IF qp_config.gamma < Tiny THEN Tiny ELSE qp_config.gamma

\* a draw that returned although timescale, period and gamma were not
\* positive
C17_Witness ==
    /\ draw_call.pc = "returned"
    /\ qp_config.timescale <= 0
    /\ qp_config.period <= 0
    /\ qp_config.gamma <= 0
    /\ qp_config.amplitude < 0
    /\ draw_call.cov.timescale = Tiny
    /\ \E i \in 1..Len(draw_call.noise) : draw_call.noise[i] # 0

\* C18 as stated: draw_qp_noise and run_injection_recovery sample only from
\* the generator the caller supplied; none is created when none is supplied.
C18_NoImplicitGenerator ==
    /\ draw_call.pc \in {"try", "except", "returned"} =>
           /\ ~random_state.none
           /\ draw_call.rng.seed = random_state.seed
    /\ pc \in {"loop", "returned"} =>
           /\ ~random_state.none
           /\ rng.seed = random_state.seed

\* C18 amended: a supplied generator is the only one draw_qp_noise and
\* run_injection_recovery sample from, and it moves on by what they draw;
\* when random_state is None each call creates a fresh unseeded generator
\* after validating time and samples from that.
C18_SuppliedOrFreshGenerator ==
    /\ draw_call.pc \in {"try", "except", "returned"} =>
           IF random_state.none
           THEN ~draw_call.rng.none /\ draw_call.rng.seed \in Seeds
           ELSE draw_call.rng =
                    Gen(random_state.seed,
                        random_state.pos + draw_call.attempts * Len(time.data))
    /\ (pc \in {"loop", "returned"} \/ (pc = "raised" /\ ~BadTime)) =>
           IF random_state.none
           THEN ~rng.none /\ rng.seed \in Seeds
           ELSE /\ ~rng.none
                /\ rng.seed = random_state.seed
                /\ rng.pos >= random_state.pos + idx * Len(time.data)

\* with random_state None both a direct draw and a run returned, sampled
\* from generators of their own
C18_Witness ==
    /\ random_state.none
    /\ draw_call.pc = "returned"
    /\ \E i \in 1..Len(draw_call.noise) : draw_call.noise[i] # 0
    /\ pc = "returned"
    /\ Len(ret.value) = 1
    /\ ~rng.none
    /\ rng.seed # draw_call.rng.seed

\* snr a is less than snr b (an snr is its sign and its square)
SnrLess(a, b) ==
    \/ a.sgn < b.sgn
    \/ a.sgn = 1 /\ b.sgn = 1 /\ a.sq.n * b.sq.d < b.sq.n * a.sq.d
    \/ a.sgn = -1 /\ b.sgn = -1 /\ a.sq.n * b.sq.d > b.sq.n * a.sq.d

\* injections[1] with another depth
AtDepth(d) == [injections[1] EXCEPT !.depth = d]

\* the snr recover_box_depth returns on the noiseless box signal of depth d,
\* with the time, flux_err, duration, period and t0 of the call made
SnrAtDepth(d) ==
    recover_box_depth(time, inject_box_transit(time, AtDepth(d)).flux,
                      flux_err, AtDepth(d)).snr

EstimateEntered(e) ==
    estimate_call' = [estimate_call EXCEPT
                        !.pc = e.pc, !.error = e.error, !.kept_time = e.time,
                        !.flux_centered = e.flux_centered,
                        !.search_max = e.max_period]

EstimateEnter ==
    /\ estimate_call.pc = "call"
    /\ EstimateEntered(EstimatePrepared(estimate_call.time, estimate_call.flux,
                                        estimate_call.min_period,
                                        estimate_call.max_period))
    /\ UNCHANGED <<args, run, prev, inject_call, recover_call, draw_call,
                   draw_prev,
                   fold_call, mask_call>>

\* ls.autopower(...) between 1/max_period and 1/min_period.  The
\* periodogram is the library's: its grid may be empty, and its peak lies at
\* a period of the searched range.
EstimatePeriodogram ==
    /\ estimate_call.pc = "periodogram"
    /\ \E empty \in BOOLEAN :
       \E best \in estimate_call.min_period..estimate_call.search_max :
           estimate_call' =
               IF empty
               THEN [estimate_call EXCEPT
                       !.pc = "raised",
                       !.periodograms = @ + 1,
                       !.error = Raised("RuntimeError",
                           "Lomb-Scargle failed to compute a valid periodogram.")]
               ELSE [estimate_call EXCEPT
                       !.pc = "returned",
                       !.periodograms = @ + 1,
                       !.period = best]
    /\ UNCHANGED <<args, run, prev, inject_call, recover_call, draw_call,
                   draw_prev,
                   fold_call, mask_call>>

\* the time arrays of ValidTimes, each with every finiteness of its samples
EstimateSeries(values) ==
    {Series(tm.data, finite) :
        tm \in {t \in ValidTimes : Len(t.data) = Len(values)},
        finite \in [1..Len(values) -> BOOLEAN]}

\* a flux for each length: a dip on the second sample
EstimateFlux(n) == [i \in 1..n |-> IF i = 2 THEN One - 3 ELSE One + i]

InitEstimate ==
    /\ time = TimeArray(<<>>)
    /\ flux_err = NoneErr
    /\ injections = <<>>
    /\ qp_config = Config(0, 1, 1, 1, 0)
    /\ detection_threshold = DefaultThreshold
    /\ random_state = NoGen
    /\ linalg = [first |-> FALSE, retry |-> FALSE]
    /\ IdleRun
    /\ inject_call = NotCalledInject
    /\ recover_call = NotCalledRecover
    /\ draw_call = NoDraw
    /\ draw_prev = NoDraw
    /\ fold_call = NotCalled
    /\ mask_call = NotCalled
    /\ \E n \in 1..MaxTick :
       \E tm \in EstimateSeries(EstimateFlux(n)) :
       \E finite \in [1..n -> BOOLEAN] :
       \E min_period \in {DefaultMinPeriod, 2, 10} :
       \E max_period \in {NoMaxPeriod} \cup {MaxPeriod(v) : v \in {1, 2, 3, 12}} :
           estimate_call = NewEstimate(tm, Series(EstimateFlux(n), finite),
                                       min_period, max_period)

NextEstimate == EstimateEnter \/ EstimatePeriodogram

SpecEstimate == InitEstimate /\ [][NextEstimate]_vars

\* the pairs of the call with both values finite
FinitePairs ==
    {i \in 1..Len(estimate_call.time.data) :
        estimate_call.time.finite[i] /\ estimate_call.flux.finite[i]}

\* the max_period the call searches up to: the argument, or by default the
\* span of the finite pairs' times (ten times min_period when that is 0)
SearchedMaxPeriod ==
    IF ~estimate_call.max_period.none THEN estimate_call.max_period.value
    ELSE IF \E i, j \in FinitePairs :
                estimate_call.time.data[i] # estimate_call.time.data[j]
    THEN CHOOSE span \in 1..MaxTick + 1 :
             /\ \E i, j \in FinitePairs :
                    estimate_call.time.data[i] - estimate_call.time.data[j] = span
             /\ \A i, j \in FinitePairs :
                    estimate_call.time.data[i] - estimate_call.time.data[j] <= span
    ELSE 10 * estimate_call.min_period

\* C20: estimate_rotation_period fails with a validation error whenever the
\* max_period it would search up to, given or defaulted, is less than or
\* equal to min_period, and computes no periodogram then.
C20_PeriodRangeRejected ==
    (/\ estimate_call.pc \notin {"idle", "call"}
     /\ FinitePairs # {}
     /\ SearchedMaxPeriod <= estimate_call.min_period) =>
        /\ estimate_call.pc = "raised"
        /\ estimate_call.error =
               Raised("ValueError", "max_period must be greater than min_period.")
        /\ estimate_call.periodograms = 0

\* a call without max_period whose baseline equals min_period
C20_Witness ==
    /\ estimate_call.pc = "raised"
    /\ estimate_call.max_period.none
    /\ FinitePairs # {}
    /\ SearchedMaxPeriod = estimate_call.min_period
    /\ estimate_call.periodograms = 0

\* the index of the k-th pair of the call with both values finite
NthFinite(k) ==
    CHOOSE i \in FinitePairs :
        Cardinality({j \in FinitePairs : j < i}) = k - 1

\* C21: estimate_rotation_period keeps exactly the (time, flux) pairs with
\* both values finite, in index order: the times searched, the default
\* max_period and the centred flux are those of the kept pairs, the centring
\* value is a median of the kept flux, and a call without a finite pair
\* fails with a validation error before any periodogram.
C21_OnlyFinitePairsUsed ==
    /\ (estimate_call.pc \notin {"idle", "call"} /\ FinitePairs = {}) =>
           /\ estimate_call.pc = "raised"
           /\ estimate_call.error =
                  Raised("ValueError",
                         "No finite samples provided for period estimation.")
           /\ estimate_call.periodograms = 0
    /\ (estimate_call.pc = "periodogram" \/ estimate_call.periodograms > 0) =>
           /\ Len(estimate_call.kept_time) = Cardinality(FinitePairs)
           /\ Len(estimate_call.flux_centered) = Cardinality(FinitePairs)
           /\ estimate_call.search_max = SearchedMaxPeriod
           /\ \A k \in 1..Cardinality(FinitePairs) :
                  /\ estimate_call.kept_time[k] =
                         estimate_call.time.data[NthFinite(k)]
                  /\ estimate_call.flux_centered[k]
                         - estimate_call.flux_centered[1] =
                     2 * (estimate_call.flux.data[NthFinite(k)]
                          - estimate_call.flux.data[NthFinite(1)])
           /\ 2 * Cardinality({k \in 1..Cardinality(FinitePairs) :
                      estimate_call.flux_centered[k] < 0})
                  <= Cardinality(FinitePairs)
           /\ 2 * Cardinality({k \in 1..Cardinality(FinitePairs) :
                      estimate_call.flux_centered[k] > 0})
                  <= Cardinality(FinitePairs)

\* a returned call of three pairs, one dropped for its flux alone
C21_Witness ==
    /\ estimate_call.pc = "returned"
    /\ Len(estimate_call.time.data) = 3
    /\ estimate_call.time.finite = <<TRUE, TRUE, TRUE>>
    /\ estimate_call.flux.finite = <<TRUE, FALSE, TRUE>>
    /\ Len(estimate_call.kept_time) = 2
    /\ estimate_call.flux_centered[1] # 0

\* ========================================================= phase_fold
\* Times, t0 and period are in ticks; a phase is in steps of 1/FoldOne of a
\* cycle, the least spacing of the floats there.  Each operation rounds its
\* result to Precision significant bits.

\* the float nearest to n / d in phase steps, d > 0: (t - t0) / period
FlDiv(n, d) ==
    Sign(n) * (RoundMag(Abs(n) * FoldOne, Quantum(Abs(n) * FoldOne, d)) \div d)

\* variant: a phase of exactly 0.5 is left where it is
FoldWrapAbove(phase) ==
    IF 2 * phase > FoldOne THEN Fl(phase - FoldOne) ELSE phase

\* phase[phase >= 0.5] -= 1.0
FoldWrap(phase) ==
    IF 2 * phase >= FoldOne THEN Fl(phase - FoldOne) ELSE phase

\* phase = ((t - t0) / period) % 1.0, wrapped
FoldedPhase(t, t0, period) ==
    FoldWrap(PyMod(FlDiv(Fl(t - t0), period), FoldOne))

\* the orders np.argsort(phase) can return: ties in either order
Orders(n) ==
    {order \in [1..n -> 1..n] : \A i, j \in 1..n : i # j => order[i] # order[j]}

IsArgsort(order, phase) ==
    \A i, j \in 1..Len(phase) : i < j => phase[order[i]] <= phase[order[j]]

Folded(t, y, phase, order) ==
    [phase |-> [k \in 1..Len(t) |-> phase[order[k]]],
     y     |-> [k \in 1..Len(t) |-> y[order[k]]]]

\* phase_fold(t, y, period, t0) when argsort returns order
phase_fold(t, y, period, t0, order) ==
    Folded(t, y, [i \in 1..Len(t) |-> FoldedPhase(t[i], t0, period)], order)

PhaseFold ==
    /\ ~fold_call.called
    /\ \E order \in Orders(Len(fold_call.args.t)) :
           /\ IsArgsort(order, [i \in 1..Len(fold_call.args.t) |->
                                   FoldedPhase(fold_call.args.t[i],
                                               fold_call.args.t0,
                                               fold_call.args.period)])
           /\ fold_call' = [fold_call EXCEPT
                              !.called = TRUE,
                              !.out = phase_fold(fold_call.args.t, fold_call.args.y,
                                                 fold_call.args.period,
                                                 fold_call.args.t0, order)]
    /\ UNCHANGED <<args, run, prev, inject_call, recover_call, draw_call,
                   draw_prev, estimate_call, mask_call>>

InitFold ==
    /\ time = TimeArray(<<>>)
    /\ flux_err = NoneErr
    /\ injections = <<>>
    /\ qp_config = Config(0, 1, 1, 1, 0)
    /\ detection_threshold = DefaultThreshold
    /\ random_state = NoGen
    /\ linalg = [first |-> FALSE, retry |-> FALSE]
    /\ IdleRun
    /\ inject_call = NotCalledInject
    /\ recover_call = NotCalledRecover
    /\ draw_call = NoDraw
    /\ draw_prev = NoDraw
    /\ estimate_call = NoEstimate
    /\ mask_call = NotCalled
    /\ \E tm \in ValidTimes :
       \E t0 \in {0, 1, 5} :
       \E period \in {1, 2, 3, FoldOne, 3 * FoldOne} :
           fold_call = [NotCalled EXCEPT
                          !.args = [t |-> tm.data,
                                    y |-> [i \in 1..Len(tm.data) |-> One + i],
                                    period |-> period, t0 |-> t0]]

NextFold == PhaseFold

SpecFold == InitFold /\ [][NextFold]_vars

\* C22: phase_fold returns phases that all lie in [-0.5, 0.5), in
\* non-decreasing order, the y values permuted by the same ordering, for
\* every time (t < t0 included) and period > 0.
C22_FoldedPhasesSorted ==
    fold_call.called =>
        /\ Len(fold_call.out.phase) = Len(fold_call.args.t)
        /\ Len(fold_call.out.y) = Len(fold_call.args.t)
        /\ \A k \in 1..Len(fold_call.out.phase) :
               /\ -FoldOne <= 2 * fold_call.out.phase[k]
               /\ 2 * fold_call.out.phase[k] < FoldOne
        /\ \A k \in 1..(Len(fold_call.out.phase) - 1) :
               fold_call.out.phase[k] <= fold_call.out.phase[k + 1]
        /\ \E order \in Orders(Len(fold_call.args.t)) :
               \A k \in 1..Len(fold_call.args.t) :
                   /\ fold_call.out.y[k] = fold_call.args.y[order[k]]
                   /\ fold_call.out.phase[k] =
                          FoldedPhase(fold_call.args.t[order[k]],
                                      fold_call.args.t0, fold_call.args.period)

\* a fold that reordered y, with times before t0 and a phase of -0.5
C22_Witness ==
    /\ fold_call.called
    /\ Len(fold_call.args.t) = 3
    /\ \E i \in 1..3 : fold_call.args.t[i] < fold_call.args.t0
    /\ fold_call.out.y # fold_call.args.y
    /\ 2 * fold_call.out.phase[1] = -FoldOne

\* ================================================ apply_quality_masks
\* A str preset is [str, word, caps]: the word in lower case and how the
\* caller capitalised it; an int preset is [str |-> FALSE, value].  lk says
\* whether lightkurve could be imported; _QUALITY_PRESETS is filled from its
\* flags then and is empty otherwise.
Str(word, caps) == [str |-> TRUE, word |-> word, caps |-> caps]

IntPreset(value) == [str |-> FALSE, value |-> value]

\* variant: the preset is looked up as written
AsWritten(preset) == preset

\* key = preset.lower()
Lower(preset) == [preset EXCEPT !.caps = "lower"]

QUALITY_PRESETS(lk) ==
    IF lk
    THEN (Str("default", "lower") :> DEFAULT_BITMASK)
         @@ (Str("conservative", "lower") :> CONSERVATIVE_BITMASK)
         @@ (Str("lenient", "lower") :> LENIENT_BITMASK)
    ELSE <<>>

RECURSIVE BitAnd(_, _)
\* a & b on non-negative integers
BitAnd(a, b) ==
    IF a = 0 \/ b = 0 THEN 0
    ELSE 2 * BitAnd(a \div 2, b \div 2) + (a % 2) * (b % 2)

MaskResult(mask) == [ok |-> TRUE, kind |-> "", msg |-> "", mask |-> mask]

MaskFailure(kind, msg) == [ok |-> FALSE, kind |-> kind, msg |-> msg, mask |-> <<>>]

\* return (quality & bitmask) == 0
MaskedBy(quality, bitmask) ==
    MaskResult([i \in 1..Len(quality) |-> BitAnd(quality[i], bitmask) = 0])

\* the branch of a str preset with key = preset.lower()
MaskByKey(quality, key, lk) ==
    IF key = Str("none", "lower")
    THEN MaskResult([i \in 1..Len(quality) |-> TRUE])
    ELSE IF ~lk
    THEN MaskFailure("ImportError",
                     "lightkurve is required for TESS quality masking")
    ELSE IF key \notin DOMAIN QUALITY_PRESETS(lk)
    THEN MaskFailure("ValueError", "Unknown quality preset")
    ELSE MaskedBy(quality, QUALITY_PRESETS(lk)[key])

\* apply_quality_masks(quality, preset); quality is [none, data]
apply_quality_masks(quality, preset, lk) ==
    IF quality.none THEN MaskResult(<<>>)
    ELSE IF preset.str THEN MaskByKey(quality.data, Lower(preset), lk)
    ELSE MaskedBy(quality.data, preset.value)

ApplyQualityMasks ==
    /\ ~mask_call.called
    /\ mask_call' = [mask_call EXCEPT
                       !.called = TRUE,
                       !.out = apply_quality_masks(mask_call.args.quality,
                                                   mask_call.args.preset,
                                                   mask_call.args.lk)]
    /\ UNCHANGED <<args, run, prev, inject_call, recover_call, draw_call,
                   draw_prev, estimate_call, fold_call>>

QualityValues == 0..(Pow2(QualityBits) - 1)

Qualities ==
    {[none |-> TRUE, data |-> <<>>]}
        \cup {[none |-> FALSE, data |-> q] :
                 q \in {<<>>} \cup [1..1 -> QualityValues]
                       \cup [1..2 -> QualityValues]}

Presets ==
    {Str(word, caps) :
        word \in {"default", "conservative", "lenient", "none", "unknown"},
        caps \in {"lower", "upper", "title"}}
        \cup {IntPreset(value) : value \in {0, 1, 2, 5}}

InitMask ==
    /\ time = TimeArray(<<>>)
    /\ flux_err = NoneErr
    /\ injections = <<>>
    /\ qp_config = Config(0, 1, 1, 1, 0)
    /\ detection_threshold = DefaultThreshold
    /\ random_state = NoGen
    /\ linalg = [first |-> FALSE, retry |-> FALSE]
    /\ IdleRun
    /\ inject_call = NotCalledInject
    /\ recover_call = NotCalledRecover
    /\ draw_call = NoDraw
    /\ draw_prev = NoDraw
    /\ estimate_call = NoEstimate
    /\ fold_call = NotCalled
    /\ \E quality \in Qualities :
       \E preset \in Presets :
       \E lk \in BOOLEAN :
           mask_call = [NotCalled EXCEPT
                          !.args = [quality |-> quality, preset |-> preset,
                                    lk |-> lk]]

NextMask == ApplyQualityMasks

SpecMask == InitMask /\ [][NextMask]_vars

\* bit k (from 0) of v
Bit(v, k) == (v \div Pow2(k)) % 2

\* no bit is set in both a and b
NoCommonBit(a, b) == \A k \in 0..(QualityBits - 1) : Bit(a, k) * Bit(b, k) = 0

\* the bitmask the call's preset stands for, 0 for "none"
BitmaskMeant ==
    IF ~mask_call.args.preset.str THEN mask_call.args.preset.value
    ELSE IF mask_call.args.preset.word = "default" THEN DEFAULT_BITMASK
    ELSE IF mask_call.args.preset.word = "conservative" THEN CONSERVATIVE_BITMASK
    ELSE IF mask_call.args.preset.word = "lenient" THEN LENIENT_BITMASK
    ELSE 0

DrawCost == Len(time.data) * (IF linalg.first THEN 2 ELSE 1)

\* the position of the generator when the run begins
StreamStart == IF random_state.none THEN 0 ELSE random_state.pos

\* the deviation of the samples of a draw that succeeded
DeviationUsed ==
    IF linalg.first
    THEN Isqrt(RetryCovariance(QPCovariance(qp_config), qp_config).amp2
               + RetryCovariance(QPCovariance(qp_config), qp_config).diag)
    ELSE Isqrt(QPCovariance(qp_config).amp2 + QPCovariance(qp_config).diag)

\* C24: run_injection_recovery draws from the one generator sequentially,
\* one call of draw_qp_noise per trial started and before anything else of
\* the trial: after k trials the generator has moved on by exactly k draws,
\* and the noise of the k-th result is made of the variates of the k-th
\* draw.
C24_SequentialDraws ==
    (pc \in {"loop", "returned", "raised"} /\ ~BadTime) =>
        /\ ~rng.none
        /\ rng.pos = StreamStart + idx * DrawCost
        /\ \A k \in 1..Len(results) :
               \A j \in 1..Len(time.data) :
                   results[k].noise[j] =
                       DeviationUsed
                       * Variate(rng.seed, StreamStart + k * DrawCost
                                           - Len(time.data) + j - 1)

\* two trials returned, each after a retried draw, with different noise
C24_Witness ==
    /\ pc = "returned"
    /\ Len(ret.value) = 2
    /\ linalg.first
    /\ rng.pos = StreamStart + 4 * Len(time.data)
    /\ ret.value[1].noise # ret.value[2].noise

\* the indices where the flux of inject_box_transit is 1 - depth
Dipped == {i \in 1..Len(time.data) : inject_call.out.flux[i] = One - injections[1].depth}

\* C25: recover_box_depth groups the samples by the phase test of
\* inject_box_transit: its in-transit samples are those where the injected
\* flux is 1 - depth and its out-of-transit samples are all the others, so
\* with usable errors it fails exactly when one of the two sets is empty
\* and otherwise measures the step between them.
C25_SamePartition ==
    recover_call.called =>
        /\ \A i \in 1..Len(time.data) :
               InTransitMask(time, injections[1])[i] <=> i \in Dipped
        /\ UniformPositive(flux_err) =>
               /\ Dipped = {} =>
                      recover_call.out.msg =
                          "No samples fall within the transit window for recovery"
               /\ Dipped = 1..Len(time.data) =>
                      recover_call.out.msg =
                          "No out-of-transit samples available for baseline estimation"
               /\ (Dipped # {} /\ Dipped # 1..Len(time.data)) =>
                      /\ recover_call.out.ok
                      /\ recover_call.out.recovered_depth =
                             [n |-> injections[1].depth, d |-> 1]

\* a recovery whose window has a sample exactly on its edge, and samples
\* inside and outside
C25_Witness ==
    /\ recover_call.called
    /\ recover_call.out.ok
    /\ UniformPositive(flux_err)
    /\ \E i \in Dipped :
           2 * Abs(Phase(time.data[i], injections[1])) = injections[1].duration
    /\ \E i \in Dipped : Phase(time.data[i], injections[1]) = 0
    /\ Dipped # 1..Len(time.data)

\* result is what a trial makes of signal = inject_box_transit(time, inj)
\* and rec = recover_box_depth(time, result.flux, flux_err, inj)
MadeOf(result, signal, rec) ==
    /\ signal.ok
    /\ Len(result.flux) = Len(time.data)
    /\ Len(result.noise) = Len(time.data)
    /\ \A i \in 1..Len(time.data) :
           result.flux[i] = signal.flux[i] + result.noise[i]
    /\ rec.ok
    /\ result.recovered_depth = rec.recovered_depth
    /\ result.snr = rec.snr

\* C26: in every result r that run_injection_recovery returns, r.injection
\* is the trial's injection, r.flux and r.noise have the length of time,
\* r.flux[i] = inject_box_transit(time, r.injection)[i] + r.noise[i], and
\* (recovered_depth, snr) are what recover_box_depth returns for that flux
\* and that injection.
C26_ResultConsistent ==
    ret.returned =>
        /\ Len(ret.value) = Len(injections)
        /\ \A k \in 1..Len(ret.value) :
               /\ ret.value[k].injection = injections[k]
               /\ MadeOf(ret.value[k],
                         inject_box_transit(time, ret.value[k].injection),
                         recover_box_depth(time, ret.value[k].flux, flux_err,
                                           ret.value[k].injection))

\* a returned run of two trials whose noise changed the recovered depth
C26_Witness ==
    /\ pc = "returned"
    /\ Len(ret.value) = 2
    /\ ret.value[1].injection # ret.value[2].injection
    /\ \E i \in 1..Len(time.data) : ret.value[2].noise[i] # 0
    /\ ret.value[2].recovered_depth # [n |-> ret.value[2].injection.depth, d |-> 1]
    /\ ~flux_err.none

\* the diagonal term of the first attempt: jitter squared, or the floor 1e-12
FirstDiagonal ==
    IF qp_config.jitter > 0 THEN qp_config.jitter * qp_config.jitter
    ELSE Tiny * Tiny

\* max(config.jitter, 1e-6), the jitter of the retry
EscalatedJitter == IF qp_config.jitter > Tiny THEN qp_config.jitter ELSE Tiny

\* C27 as stated: after a failed first attempt the diagonal term of the
\* retried covariance is max(jitter, 1e-6) squared, in place of the first
\* attempt's term.
C27_RetryDiagonalSquared ==
    draw_call.attempts = 2 =>
        draw_call.cov.diag = EscalatedJitter * EscalatedJitter

\* C27 amended: after a failed first attempt the retry samples from the
\* first covariance with max(jitter, 1e-6), not squared, added to its
\* diagonal on top of the first attempt's term; the off-diagonal entries are
\* unchanged, and the retry is made once.
C27_RetryDiagonalAccumulates ==
    /\ draw_call.attempts <= 2
    /\ draw_call.attempts = 2 =>
           /\ linalg.first
           /\ draw_call.cov.diag = FirstDiagonal + EscalatedJitter * One
           /\ draw_call.cov.amp2 = qp_config.amplitude * qp_config.amplitude
           /\ draw_call.cov.timescale = QPCovariance(qp_config).timescale
           /\ draw_call.cov.period = QPCovariance(qp_config).period
           /\ draw_call.cov.gamma = QPCovariance(qp_config).gamma
           /\ draw_call.pc = "returned" =>
                  \E seed \in Seeds :
                      \A i \in 1..Len(draw_call.noise) :
                          draw_call.noise[i] =
                              Isqrt(draw_call.cov.amp2 + FirstDiagonal
                                    + EscalatedJitter * One)
                              * Variate(seed, draw_call.rng.pos
                                              - Len(draw_call.noise) + i - 1)

\* a retried draw with jitter 2 that returned noise of the escalated
\* deviation
C27_Witness ==
    /\ draw_call.pc = "returned"
    /\ draw_call.attempts = 2
    /\ qp_config.jitter = 2
    /\ qp_config.amplitude = 0
    /\ draw_call.cov.diag = 4 + 2 * One
    /\ \E i \in 1..Len(draw_call.noise) : Abs(draw_call.noise[i]) = Isqrt(204)

\* ------------------------------------- transits as long as the period
\* inject_box_transit, recover_box_depth on its flux, and then
\* run_injection_recovery, on lists that hold an injection whose duration
\* is not below its period.
LongInjections ==
    {Injection(3, duration, period, t0) :
        duration \in {4, 6}, period \in {2, 4}, t0 \in {0, 1}}

ShortInjection == Injection(7, 2, 4, 0)

InitLong ==
    /\ time \in ValidTimes
    /\ flux_err \in FluxErrs(Len(time.data))
    /\ injections \in {<<ShortInjection>>}
                        \cup {<<long>> : long \in LongInjections}
                        \cup {<<ShortInjection, long>> : long \in LongInjections}
    /\ qp_config = Config(2, 1, 2, 1, 1)
    /\ detection_threshold = DefaultThreshold
    /\ random_state = Gen(1, 0)
    /\ linalg \in {[first |-> FALSE, retry |-> FALSE],
                   [first |-> TRUE, retry |-> FALSE],
                   [first |-> TRUE, retry |-> TRUE]}
    /\ IdleRun
    /\ InitDirect

NextLong ==
    \/ CallInject \/ CallRecover
    \/ CallRun \/ Enter \/ Trial \/ Return

SpecLong == InitLong /\ [][NextLong]_vars

\* an injection that passes the checks of inject_box_transit and whose
\* duration is not below its period
Long(inj) == inj.depth > 0 /\ inj.period > 0 /\ inj.duration >= inj.period

\* the errors used match time in shape and hold a finite positive entry
UsableErrors(errs) ==
    /\ Len(errs) = Len(time.data)
    /\ \E i \in 1..Len(errs) : errs[i].valid

\* C28 as stated: recover_box_depth on an injection with duration >= period
\* always fails with the error of the missing out-of-transit samples.
C28_LongTransitNoBaselineError ==
    (recover_call.called /\ Long(injections[1])) =>
        /\ ~recover_call.out.ok
        /\ recover_call.out.msg =
               "No out-of-transit samples available for baseline estimation"

\* C28 amended: an injection with duration >= period is accepted by
\* inject_box_transit and puts every sample in transit, so the flux is
\* 1 - depth everywhere; recover_box_depth on it always fails with a
\* ValueError, that of the missing out-of-transit samples when the errors
\* used (flux_err, or the scatter of the flux) match time in shape and hold
\* a finite positive entry, and that of flux_err otherwise; and
\* run_injection_recovery aborts at the first such injection.
C28_LongTransitAborts ==
    /\ (inject_call.called /\ Long(injections[1])) =>
           /\ inject_call.out.ok
           /\ Len(inject_call.out.flux) = Len(time.data)
           /\ \A i \in 1..Len(time.data) :
                  inject_call.out.flux[i] = One - injections[1].depth
    /\ (recover_call.called /\ Long(injections[1])) =>
           /\ ~recover_call.out.ok
           /\ recover_call.out.kind = "ValueError"
           /\ UsableErrors(ErrorsUsed) <=>
                  recover_call.out.msg =
                      "No out-of-transit samples available for baseline estimation"
           /\ ~UsableErrors(ErrorsUsed) =>
                  recover_call.out.msg \in
                      {"flux_err must match the shape of time",
                       "flux_err must contain at least one finite, positive entry"}
    /\ \A k \in 1..Len(injections) :
           (Long(injections[k]) /\ idx >= k) =>
               /\ pc = "raised"
               /\ idx = k
               /\ ret = NoReturn
               /\ Len(results) = k - 1
               /\ error.kind \in {"ValueError", "LinAlgError"}
               /\ (UniformPositive(flux_err) /\ ~linalg.retry) =>
                      error.msg =
                          "No out-of-transit samples available for baseline estimation"

\* a transit as long as its period with uniform errors: its flux was built,
\* its recovery was refused for the missing baseline, and the run aborted
\* in its trial with the same error
C28_Witness ==
    /\ Long(injections[1])
    /\ injections[1].duration = injections[1].period
    /\ Len(time.data) >= 3
    /\ inject_call.called
    /\ recover_call.called
    /\ recover_call.out.msg =
           "No out-of-transit samples available for baseline estimation"
    /\ pc = "raised"
    /\ idx = 1
    /\ error.msg = "No out-of-transit samples available for baseline estimation"

\* ------------------------------------------- resuming an aborted run
\* A run whose trial was rejected by inject_box_transit or
\* recover_box_depth is resumed by the caller: it puts a sound injection in
\* the place of the rejected one and calls run_injection_recovery on that
\* and the injections not yet processed, passing the generator object it
\* passed before.

\* the errors inject_box_transit and recover_box_depth raise for their
\* injection and flux_err arguments
PartMessages ==
    {"Transit depth must be positive",
     "Transit duration and period must be positive",
     "flux_err must contain at least one finite, positive entry",
     "No samples fall within the transit window for recovery",
     "No out-of-transit samples available for baseline estimation"}

\* the injection put in the place of the rejected one
Repaired == Injection(7, 2, 4, 0)

Resume ==
    /\ pc = "raised"
    /\ prev = NoPrev
    /\ error.msg \in PartMessages
    /\ prev' = [pc |-> pc, ret |-> ret, error |-> error, rng |-> rng]
    /\ injections' = <<Repaired>> \o SubSeq(injections, idx + 1, Len(injections))
    /\ random_state' = rng
    /\ pc' = "call"
    /\ rng' = rng
    /\ idx' = 0
    /\ results' = <<>>
    /\ ret' = NoReturn
    /\ error' = NoError
    /\ UNCHANGED <<time, flux_err, qp_config, detection_threshold, linalg,
                 direct>>

InitResume ==
    /\ time \in {TimeArray(<<0, 1, 2, 3>>), TimeArray(<<1, 2>>)}
    /\ flux_err \in {NoneErr, ErrArray([i \in 1..Len(time.data) |-> ErrElem(1)])}
    /\ injections \in ListsUpTo(RunInjections, MaxInj)
    /\ qp_config \in {Config(2, 1, 2, 1, 1), Config(0, 0, 1, 1, 2)}
    /\ detection_threshold = DefaultThreshold
    /\ random_state \in {NoGen} \cup {Gen(seed, 0) : seed \in Seeds}
    /\ linalg \in [first : BOOLEAN, retry : BOOLEAN]
    /\ InitRun
    /\ InitDirect

NextResume == Enter \/ Trial \/ Return \/ Resume

SpecResume == InitResume /\ [][NextResume]_vars

WrongShape == ~flux_err.none /\ Len(flux_err.elems) # Len(time.data)

\* C30: with no injection and a valid time, run_injection_recovery returns
\* the empty list, draws nothing and raises nothing, also when flux_err has
\* the wrong shape: that shape is tested only inside the loop, after the
\* trial's draw and its signal.  An invalid time is rejected before the
\* loop whatever the list.
C30_EmptyListReturnsEmpty ==
    /\ (injections = <<>> /\ ~BadTime) =>
           /\ pc \in {"call", "loop", "returned"}
           /\ error = NoError
           /\ idx = 0
           /\ results = <<>>
           /\ pc = "returned" => ret = [returned |-> TRUE, value |-> <<>>]
           /\ pc = "loop" => ENABLED Return
           /\ ~random_state.none => rng = random_state
           /\ ~rng.none => rng.pos = StreamStart
    /\ (WrongShape /\ ~BadTime /\ injections # <<>> /\ pc # "call") =>
           /\ pc = "loop" => idx = 0
           /\ pc \in {"loop", "raised"}
           /\ pc = "raised" =>
                  /\ idx = 1
                  /\ results = <<>>
                  /\ rng.pos = StreamStart + DrawCost
                  /\ (~linalg.retry /\ inject_box_transit(time, injections[1]).ok) =>
                         error = Raised("ValueError", "flux_err must match time")
    /\ (BadTime /\ pc # "call") =>
           /\ pc = "raised"
           /\ error.kind = "ValueError"
           /\ idx = 0
           /\ ret = NoReturn
           /\ rng = random_state

\* an empty list returned with a generator passed and a flux_err longer
\* than time
C30_Witness ==
    /\ pc = "returned"
    /\ injections = <<>>
    /\ ret.value = <<>>
    /\ WrongShape
    /\ ~random_state.none
    /\ rng = random_state

====
